---- MODULE Spec2Model ----
(***************************************************************************)
(* A model of tft-scout: the State Extractor (GameStateParser), the        *)
(* Capture Adapter (ScreenCapture), the Session Recorder (DebugManager),   *)
(* the Session Replayer (ReplayManager) and the orchestrator (TftScout).   *)
(*                                                                         *)
(* Text is a sequence of one-character strings.  An optional value         *)
(* (TypeScript's  T | null) is a sequence of length 0 (null) or 1.         *)
(***************************************************************************)
EXTENDS Integers, Sequences, FiniteSets, TLC

(***************************************************************************)
(* Bounds of the model.                                                    *)
(***************************************************************************)
NumFrames == 2       \* distinct screen contents the game shows, in order
MaxFaults == 2       \* transient crop/recognizer faults injected per parse
MaxEvents == 5       \* events of the environment per run: a call of an
                     \* operation, a tick of the clock, a new frame on the
                     \* screen, a failing storage write

(***************************************************************************)
(* Program constants.                                                      *)
(***************************************************************************)
ShopSlotCount == 5
BenchSlotCount == 9
PadWidth == 3

None == <<>>
Some(x) == <<x>>

Min(S) == CHOOSE x \in S : \A y \in S : x <= y
Max(S) == CHOOSE x \in S : \A y \in S : x >= y

(***************************************************************************)
(* Text: characters, String.prototype.trim, and the three regular          *)
(* expressions the parser uses.                                            *)
(***************************************************************************)
DigitChars == <<"0", "1", "2", "3", "4", "5", "6", "7", "8", "9">>
WhiteSpace == {" "}
\* The character class of the stage pattern: the ASCII hyphen and the
\* non-ASCII dash the source lists beside it (written "~" here).
DashClass == {"-", "~"}
SlashClass == {"/"}

IsDigit(c) == \E i \in 1..10 : DigitChars[i] = c
DigitVal(c) == (CHOOSE i \in 1..10 : DigitChars[i] = c) - 1
DigitChar(n) == DigitChars[(n % 10) + 1]

RECURSIVE TrimLeft(_)
TrimLeft(t) ==
    IF t = <<>> THEN t
    ELSE IF Head(t) \in WhiteSpace THEN TrimLeft(Tail(t)) ELSE t

RECURSIVE TrimRight(_)
TrimRight(t) ==
    IF t = <<>> THEN t
    ELSE IF t[Len(t)] \in WhiteSpace THEN TrimRight(SubSeq(t, 1, Len(t) - 1)) ELSE t

\* text.trim()
Trim(t) == TrimRight(TrimLeft(t))

\* The end of the greedy \d+ that starts at position i (t[i] is a digit).
DigitRunEnd(t, i) == Max({j \in i..Len(t) : \A k \in i..j : IsDigit(t[k])})

\* text.match(/\d+/): the leftmost, longest run of digits, or null.
MatchDigits(t) ==
    LET starts == {i \in 1..Len(t) : IsDigit(t[i])}
    IN  IF starts = {} THEN None
        ELSE LET i == Min(starts) IN Some(SubSeq(t, i, DigitRunEnd(t, i)))

\* text.match(/(\d+)[seps](\d+)/): the two groups of the leftmost match, or null.
MatchPair(t, seps) ==
    LET ok(i) == /\ IsDigit(t[i])
                 /\ LET j == DigitRunEnd(t, i)
                    IN  /\ j + 2 <= Len(t)
                        /\ t[j + 1] \in seps
                        /\ IsDigit(t[j + 2])
        starts == {i \in 1..Len(t) : ok(i)}
    IN  IF starts = {} THEN None
        ELSE LET i == Min(starts)
                 j == DigitRunEnd(t, i)
             IN  Some(<<SubSeq(t, i, j), SubSeq(t, j + 2, DigitRunEnd(t, j + 2))>>)

\* parseInt(digits, 10) of a run of digits.
RECURSIVE ParseInt(_)
ParseInt(ds) ==
    IF ds = <<>> THEN 0
    ELSE 10 * ParseInt(SubSeq(ds, 1, Len(ds) - 1)) + DigitVal(ds[Len(ds)])

(***************************************************************************)
(* Regions, in the order the parser reads them: stage, gold, level, the    *)
(* shop slots, the bench slots (BASE_REGIONS).                             *)
(***************************************************************************)
NumRegions == 3 + ShopSlotCount + BenchSlotCount
StageIdx == 1
GoldIdx == 2
LevelIdx == 3
ShopIdx(i) == 3 + i
BenchIdx(j) == 3 + ShopSlotCount + j
IsShopIdx(k) == k \in ShopIdx(1)..ShopIdx(ShopSlotCount)
IsBenchIdx(k) == k \in BenchIdx(1)..BenchIdx(BenchSlotCount)

(***************************************************************************)
(* The base regions and their scaling to the size of the game window.      *)
(***************************************************************************)
BASE_WIDTH == 1024
BASE_HEIGHT == 768

Rect(x1, y1, x2, y2) ==
    [leftTop |-> [x |-> x1, y |-> y1], rightBottom |-> [x |-> x2, y |-> y2]]

\* BASE_REGIONS, by region index.
BASE_REGIONS ==
    <<Rect(474, 5, 550, 25),
      Rect(597, 730, 646, 751),
      Rect(346, 728, 395, 758),
      Rect(343, 667, 450, 700),
      Rect(453, 667, 560, 700),
      Rect(563, 667, 670, 700),
      Rect(673, 667, 780, 700),
      Rect(783, 667, 890, 700),
      Rect(216, 545, 280, 570),
      Rect(301, 545, 365, 570),
      Rect(386, 545, 450, 570),
      Rect(471, 545, 535, 570),
      Rect(556, 545, 620, 570),
      Rect(641, 545, 705, 570),
      Rect(726, 545, 790, 570),
      Rect(811, 545, 875, 570),
      Rect(896, 545, 960, 570)>>

\* Math.round(n / d) for n >= 0, d > 0.
Round(n, d) == (2 * n + d) \div (2 * d)

\* A scaleRegion that rounds the size of the region and not its bottom
\* right corner.
scaleRegionBySize(region, targetWidth, targetHeight) ==
    LET x == Round(region.leftTop.x * targetWidth, BASE_WIDTH)
        y == Round(region.leftTop.y * targetHeight, BASE_HEIGHT)
    IN  Rect(x, y,
             x + Round((region.rightBottom.x - region.leftTop.x) * targetWidth, BASE_WIDTH),
             y + Round((region.rightBottom.y - region.leftTop.y) * targetHeight,
                       BASE_HEIGHT))

\* A scaleRegion whose regions were measured on a window 1280 wide.
scaleRegionWide(region, targetWidth, targetHeight) ==
    Rect(Round(region.leftTop.x * targetWidth, 1280),
         Round(region.leftTop.y * targetHeight, BASE_HEIGHT),
         Round(region.rightBottom.x * targetWidth, 1280),
         Round(region.rightBottom.y * targetHeight, BASE_HEIGHT))

scaleRegion(region, targetWidth, targetHeight) ==
    Rect(Round(region.leftTop.x * targetWidth, BASE_WIDTH),
         Round(region.leftTop.y * targetHeight, BASE_HEIGHT),
         Round(region.rightBottom.x * targetWidth, BASE_WIDTH),
         Round(region.rightBottom.y * targetHeight, BASE_HEIGHT))

\* GameStateParser.getScaledRegion
getScaledRegion(size, region) == scaleRegion(region, size.width, size.height)

BaseSize == [width |-> BASE_WIDTH, height |-> BASE_HEIGHT]

(***************************************************************************)
(* ScreenCapture: the preprocessing of a crop for the recognizer, as the   *)
(* list of the steps the image pipeline is given.                          *)
(***************************************************************************)
Step(op, width, height, kernel, level) ==
    [op |-> op, width |-> width, height |-> height, kernel |-> kernel, level |-> level]

\* A pipeline of captureRegionAsPng that binarizes at another threshold.
captureRegionAsPngStepsDim(forOCR, width, height) ==
    IF forOCR
    THEN <<Step("resize", 3 * width, 3 * height, "lanczos3", 0),
           Step("grayscale", 0, 0, "", 0),
           Step("normalize", 0, 0, "", 0),
           Step("threshold", 0, 0, "", 128),
           Step("sharpen", 0, 0, "", 0)>>
    ELSE <<>>

\* captureRegionAsPng on a grabbed image of the given size.
captureRegionAsPngSteps(forOCR, width, height) ==
    IF forOCR
    THEN <<Step("resize", 3 * width, 3 * height, "lanczos3", 0),
           Step("grayscale", 0, 0, "", 0),
           Step("normalize", 0, 0, "", 0),
           Step("threshold", 0, 0, "", 160),
           Step("sharpen", 0, 0, "", 0)>>
    ELSE <<>>

\* extractRegionFromBuffer, after its extract of a region of the given size.
extractRegionFromBufferSteps(forOCR, width, height) ==
    IF forOCR
    THEN <<Step("resize", 3 * width, 3 * height, "lanczos3", 0),
           Step("grayscale", 0, 0, "", 0),
           Step("normalize", 0, 0, "", 0),
           Step("threshold", 0, 0, "", 160),
           Step("sharpen", 0, 0, "", 0)>>
    ELSE <<>>

RegionWidth(region) == region.rightBottom.x - region.leftTop.x
RegionHeight(region) == region.rightBottom.y - region.leftTop.y

(***************************************************************************)
(* The screen.  The game shows frame 1, then frame 2, ...; FrameText is    *)
(* the raw text the recognizer returns for the crop of region k of frame   *)
(* f.  Frames differ in the stage, gold and level regions, in shop slot 1  *)
(* and in bench slot 1; some slots are empty or hold only white space.     *)
(***************************************************************************)
\* A stored frame buffer that is no decodable image.
BadFrame == 0

FrameText(f, k) ==
    IF k = StageIdx THEN
        IF f % 3 = 1 THEN <<" ", "L", DigitChar(f), "-", DigitChar(f + 1)>>
        ELSE IF f % 3 = 2 THEN <<DigitChar(f), "-", DigitChar(f + 1), " ">>
        ELSE <<DigitChar(f), "~", DigitChar(f + 1)>>
    ELSE IF k = GoldIdx THEN
        IF f % 3 = 0 THEN <<"G">> ELSE <<"G", DigitChar(f), DigitChar(f + 4), " ">>
    ELSE IF k = LevelIdx THEN
        IF f % 2 = 1 THEN <<"L", DigitChar(f + 5), " ", DigitChar(f), "/", "8">>
        ELSE <<"L", DigitChar(f + 5)>>
    ELSE IF IsShopIdx(k) THEN
        LET i == k - 3
        IN  IF i = 1 THEN <<"U", DigitChar(f)>>
            ELSE IF i % 2 = 0 THEN <<" ">>
            ELSE <<" ", "U", DigitChar(i)>>
    ELSE
        LET j == k - 3 - ShopSlotCount
        IN  IF j = 1 THEN <<"B", DigitChar(f)>>
            ELSE IF j % 4 = 0 THEN <<"B", DigitChar(j), " ">>
            ELSE <<>>

(***************************************************************************)
(* GameStateParser: the per-field rules.  A reading is the outcome of the  *)
(* crop and of the recognizer for one region: None when either threw,      *)
(* Some(raw text) otherwise.  A field function returns what it evaluates   *)
(* to and whether an exception left it (threw).                            *)
(***************************************************************************)
Returned(v) == [threw |-> FALSE, val |-> v]
Thrown(v) == [threw |-> TRUE, val |-> v]

\* The unit a non-empty slot text becomes: { name: text, cost: null }.
Unit(text) == [name |-> text, cost |-> None]

\* parseStage, after the recognizer returned: the stage pattern, else the
\* trimmed text, else null.
StageRule(raw) ==
    LET text == Trim(raw)
        match == MatchPair(text, DashClass)
    IN  IF match # None THEN Some(match[1][1] \o <<"-">> \o match[1][2])
        ELSE IF text # <<>> THEN Some(text) ELSE None

\* parseGold, after the recognizer returned.
GoldRule(raw) ==
    LET match == MatchDigits(Trim(raw))
    IN  IF match # None THEN Some(ParseInt(match[1])) ELSE None

\* A parseLevel that reads a level only beside an xp pair.
LevelRuleCoupled(raw) ==
    LET text == Trim(raw)
        levelMatch == MatchDigits(text)
        xpMatch == MatchPair(text, SlashClass)
    IN  [level |-> IF levelMatch # None /\ xpMatch # None
                   THEN Some(ParseInt(levelMatch[1])) ELSE None,
         xp |-> IF xpMatch # None THEN Some(xpMatch[1][1] \o <<"/">> \o xpMatch[1][2])
                ELSE None]

\* parseLevel, after the recognizer returned.
LevelRule(raw) ==
    LET text == Trim(raw)
        levelMatch == MatchDigits(text)
        xpMatch == MatchPair(text, SlashClass)
    IN  [level |-> IF levelMatch # None THEN Some(ParseInt(levelMatch[1])) ELSE None,
         xp |-> IF xpMatch # None THEN Some(xpMatch[1][1] \o <<"/">> \o xpMatch[1][2])
                ELSE None]

\* A slot rule that pushes a unit whatever the text.
SlotRuleAlways(raw) == Some(Unit(Trim(raw)))

\* parseShop / parseBench, after the recognizer returned: the slot's entry.
SlotRule(raw) ==
    LET text == Trim(raw) IN IF text # <<>> THEN Some(Unit(text)) ELSE None

parseStage(reading) ==
    IF reading = None THEN Returned(None) ELSE Returned(StageRule(reading[1]))

\* parseGold without its catch block: the exception leaves the function.
parseGoldNoCatch(reading) ==
    IF reading = None THEN Thrown(None) ELSE Returned(GoldRule(reading[1]))

parseGold(reading) ==
    IF reading = None THEN Returned(None) ELSE Returned(GoldRule(reading[1]))

parseLevel(reading) ==
    IF reading = None THEN Returned([level |-> None, xp |-> None])
    ELSE Returned(LevelRule(reading[1]))

\* An iteration whose catch block pushes nothing.
parseSlotNoPush(units, reading) ==
    IF reading = None THEN Returned(units)
    ELSE Returned(Append(units, SlotRule(reading[1])))

\* One iteration of the loop of parseShop or parseBench: the local array
\* after its push.
parseSlot(units, reading) ==
    IF reading = None THEN Returned(Append(units, None))
    ELSE Returned(Append(units, SlotRule(reading[1])))

\* parseRegionFromBuffer without its catch block.
parseRegionFromBufferNoCatch(reading) ==
    IF reading = None THEN Thrown(None)
    ELSE LET text == Trim(reading[1])
         IN  Returned(IF text # <<>> THEN Some(text) ELSE None)

\* parseRegionFromBuffer: the trimmed text, or null when it is empty or when
\* the crop or the recognizer threw.
parseRegionFromBuffer(reading) ==
    IF reading = None THEN Returned(None)
    ELSE LET text == Trim(reading[1])
         IN  Returned(IF text # <<>> THEN Some(text) ELSE None)

\* parseFromBuffer's rules on the text parseRegionFromBuffer returned.
BufferStageRule(text) == text

BufferGoldRule(goldText) ==
    LET goldMatch == IF goldText = None THEN None ELSE MatchDigits(goldText[1])
    IN  IF goldMatch # None THEN Some(ParseInt(goldMatch[1])) ELSE None

BufferLevelRule(levelText) ==
    LET levelMatch == IF levelText = None THEN None ELSE MatchDigits(levelText[1])
        xpMatch == IF levelText = None THEN None ELSE MatchPair(levelText[1], SlashClass)
    IN  [level |-> IF levelMatch # None THEN Some(ParseInt(levelMatch[1])) ELSE None,
         xp |-> IF xpMatch # None THEN Some(xpMatch[1][1] \o <<"/">> \o xpMatch[1][2])
                ELSE None]

BufferSlotRule(text) == IF text # None THEN Some(Unit(text[1])) ELSE None

\* The GameState both entry points start from.
EmptyGameState(ts) ==
    [stage |-> None,
     shop |-> [units |-> <<>>, gold |-> None, level |-> None, xp |-> None],
     bench |-> <<>>,
     timestamp |-> ts]

(***************************************************************************)
(* GameStateParser.parse and parseFromBuffer, one awaited field at a time. *)
(* A parse state p holds gameState (gs), the local array of parseShop or   *)
(* parseBench (units), the index k of the next region and a status: "run", *)
(* "done" (every field read), "caught" (the outer catch block ran) or      *)
(* "raised" (an exception left the entry point).                           *)
(***************************************************************************)
NewParse(ts) == [gs |-> EmptyGameState(ts), units |-> <<>>, k |-> 1, status |-> "run"]

\* The outer catch of parse / parseFromBuffer: log, then return gameState.
OuterCatch(p) == [p EXCEPT !.status = "caught"]

Advance(p) ==
    [p EXCEPT !.k = p.k + 1, !.status = IF p.k = NumRegions THEN "done" ELSE "run"]

\* parse: the statement that reads region p.k.
LiveStep(p, reading) ==
    IF p.k = StageIdx THEN
        LET r == parseStage(reading)
        IN  IF r.threw THEN OuterCatch(p) ELSE Advance([p EXCEPT !.gs.stage = r.val])
    ELSE IF p.k = GoldIdx THEN
        LET r == parseGold(reading)
        IN  IF r.threw THEN OuterCatch(p) ELSE Advance([p EXCEPT !.gs.shop.gold = r.val])
    ELSE IF p.k = LevelIdx THEN
        LET r == parseLevel(reading)
        IN  IF r.threw THEN OuterCatch(p)
            ELSE Advance([p EXCEPT !.gs.shop.level = r.val.level,
                                   !.gs.shop.xp = r.val.xp])
    ELSE IF IsShopIdx(p.k) THEN
        LET r == parseSlot(p.units, reading)
        IN  IF r.threw THEN OuterCatch(p)
            ELSE IF p.k = ShopIdx(ShopSlotCount)
                 THEN Advance([p EXCEPT !.gs.shop.units = r.val, !.units = <<>>])
                 ELSE Advance([p EXCEPT !.units = r.val])
    ELSE
        LET r == parseSlot(p.units, reading)
        IN  IF r.threw THEN OuterCatch(p)
            ELSE IF p.k = BenchIdx(BenchSlotCount)
                 THEN Advance([p EXCEPT !.gs.bench = r.val, !.units = <<>>])
                 ELSE Advance([p EXCEPT !.units = r.val])

\* parseFromBuffer: the statement that reads region p.k.
BufferStep(p, reading) ==
    LET r == parseRegionFromBuffer(reading)
    IN  IF r.threw THEN OuterCatch(p)
        ELSE IF p.k = StageIdx THEN
            Advance([p EXCEPT !.gs.stage = BufferStageRule(r.val)])
        ELSE IF p.k = GoldIdx THEN
            Advance([p EXCEPT !.gs.shop.gold = BufferGoldRule(r.val)])
        ELSE IF p.k = LevelIdx THEN
            Advance([p EXCEPT !.gs.shop.level = BufferLevelRule(r.val).level,
                              !.gs.shop.xp = BufferLevelRule(r.val).xp])
        ELSE IF IsShopIdx(p.k) THEN
            Advance([p EXCEPT !.gs.shop.units = Append(@, BufferSlotRule(r.val))])
        ELSE
            Advance([p EXCEPT !.gs.bench = Append(@, BufferSlotRule(r.val))])

\* Either entry point run to its end on a sequence of readings, one per
\* region.
RECURSIVE RunParse(_, _, _)
RunParse(mode, p, readings) ==
    IF p.status # "run" \/ p.k > Len(readings) THEN p
    ELSE RunParse(mode,
                  IF mode = "live" THEN LiveStep(p, readings[p.k])
                  ELSE BufferStep(p, readings[p.k]),
                  readings)

(***************************************************************************)
(* JSON.  A document is a tree of nodes of one shape: a tag t, a number n, *)
(* a string s, and for arrays and objects the children c (an object also   *)
(* has the keys of its members, in order).  JBad is the content of a file  *)
(* that is no JSON text.                                                   *)
(***************************************************************************)
JNode(t, n, s, keys, c) == [t |-> t, n |-> n, s |-> s, keys |-> keys, c |-> c]
JNull == JNode("null", 0, <<>>, <<>>, <<>>)
JUndefined == JNode("undefined", 0, <<>>, <<>>, <<>>)
JBad == JNode("bad", 0, <<>>, <<>>, <<>>)
JNum(n) == JNode("num", n, <<>>, <<>>, <<>>)
JStr(s) == JNode("str", 0, s, <<>>, <<>>)
JArr(c) == JNode("arr", 0, <<>>, <<>>, c)
JObj(keys, c) == JNode("obj", 0, <<>>, keys, c)

\* obj[key] of a parsed document: undefined when there is no such member.
Member(obj, key) ==
    IF \E i \in 1..Len(obj.keys) : obj.keys[i] = key
    THEN obj.c[CHOOSE i \in 1..Len(obj.keys) : obj.keys[i] = key]
    ELSE JUndefined

\* JSON.stringify of a  string | null  and of a  number | null.
StringifyOptStr(o) == IF o = None THEN JNull ELSE JStr(o[1])
StringifyOptNum(o) == IF o = None THEN JNull ELSE JNum(o[1])

\* JSON.parse of the same: null stays null.
ParseOptStr(j) == IF j.t = "str" THEN Some(j.s) ELSE None
ParseOptNum(j) == IF j.t = "num" THEN Some(j.n) ELSE None

\* JSON.stringify of a shop or bench entry: a unit has its name and its
\* cost; starLevel is never set, and an unset member is left out.
StringifySlot(slot) ==
    IF slot = None THEN JNull
    ELSE JObj(<<"name", "cost">>, <<JStr(slot[1].name), StringifyOptNum(slot[1].cost)>>)

ParseSlot(j) ==
    IF j.t = "obj"
    THEN Some([name |-> Member(j, "name").s, cost |-> ParseOptNum(Member(j, "cost"))])
    ELSE None

\* A reading of an array that keeps only its units.
ParseSlotsPresent(j) ==
    LET all == [i \in 1..Len(j.c) |-> ParseSlot(j.c[i])]
    IN  SelectSeq(all, LAMBDA e : e # None)

StringifySlots(slots) == JArr([i \in 1..Len(slots) |-> StringifySlot(slots[i])])
ParseSlots(j) == [i \in 1..Len(j.c) |-> ParseSlot(j.c[i])]

\* JSON.stringify(gameState)
StringifyGameState(gs) ==
    JObj(<<"stage", "shop", "bench", "timestamp">>,
         <<StringifyOptStr(gs.stage),
           JObj(<<"units", "gold", "level", "xp">>,
                <<StringifySlots(gs.shop.units), StringifyOptNum(gs.shop.gold),
                  StringifyOptNum(gs.shop.level), StringifyOptStr(gs.shop.xp)>>),
           StringifySlots(gs.bench),
           JNum(gs.timestamp)>>)

\* The GameState JSON.parse builds from such a document.
ParseGameState(j) ==
    [stage |-> ParseOptStr(Member(j, "stage")),
     shop |-> [units |-> ParseSlots(Member(Member(j, "shop"), "units")),
               gold |-> ParseOptNum(Member(Member(j, "shop"), "gold")),
               level |-> ParseOptNum(Member(Member(j, "shop"), "level")),
               xp |-> ParseOptStr(Member(Member(j, "shop"), "xp"))],
     bench |-> ParseSlots(Member(j, "bench")),
     timestamp |-> Member(j, "timestamp").n]

StringifyCapture(m) ==
    JObj(<<"index", "filename", "capturedAt", "gameState">>,
         <<JNum(m.index), JStr(m.filename), JNum(m.capturedAt),
           StringifyGameState(m.gameState)>>)

ParseCapture(j) ==
    [index |-> Member(j, "index").n,
     filename |-> Member(j, "filename").s,
     capturedAt |-> Member(j, "capturedAt").n,
     gameState |-> ParseGameState(Member(j, "gameState"))]

StringifyWindowConfig(g) ==
    JObj(<<"width", "height", "x", "y">>, <<JNum(g.width), JNum(g.height), JNum(g.x), JNum(g.y)>>)

ParseWindowConfig(j) ==
    [width |-> Member(j, "width").n, height |-> Member(j, "height").n,
     x |-> Member(j, "x").n, y |-> Member(j, "y").n]

\* JSON.stringify(this.manifest, null, 2)
StringifyManifest(m) ==
    JObj(<<"sessionId", "createdAt", "gameWindowConfig", "captures">>,
         <<JStr(m.sessionId), JNum(m.createdAt), StringifyWindowConfig(m.gameWindowConfig),
           JArr([i \in 1..Len(m.captures) |-> StringifyCapture(m.captures[i])])>>)

\* JSON.parse(manifestContent) as SessionManifest
ParseManifest(j) ==
    [sessionId |-> Member(j, "sessionId").s,
     createdAt |-> Member(j, "createdAt").n,
     gameWindowConfig |-> ParseWindowConfig(Member(j, "gameWindowConfig")),
     captures |-> [i \in 1..Len(Member(j, "captures").c) |->
                      ParseCapture(Member(j, "captures").c[i])]]

(***************************************************************************)
(* Storage.  disk.dirs is the set of session directories; disk.png,        *)
(* disk.json and disk.manifest map a path to the content of the file       *)
(* there.  A write to a missing directory fails; any other write may fail, *)
(* leaving the file as it was or truncated (writeFileSync opens the file   *)
(* for writing, which empties it, before it writes).                       *)
(***************************************************************************)
Put(f, k, v) == [x \in DOMAIN f \cup {k} |-> IF x = k THEN v ELSE f[x]]
Has(f, k) == k \in DOMAIN f

EmptyDisk ==
    [dirs |-> {}, regions |-> {}, png |-> <<>>, json |-> <<>>, manifest |-> <<>>,
     crops |-> <<>>]

\* fs.writeFileSync(path, data) on one of the maps: the map afterwards and
\* whether the call threw.  bad is what a truncated file of the map holds.
WriteFile(files, dirs, dir, key, data, fail, bad) ==
    IF dir \notin dirs THEN [files |-> files, threw |-> TRUE]
    ELSE IF fail = "untouched" THEN [files |-> files, threw |-> TRUE]
    ELSE IF fail = "truncated" THEN [files |-> Put(files, key, bad), threw |-> TRUE]
    ELSE [files |-> Put(files, key, data), threw |-> FALSE]

(***************************************************************************)
(* DebugManager.                                                           *)
(***************************************************************************)
RECURSIVE DecimalDigits(_)
DecimalDigits(n) ==
    IF n < 10 THEN <<DigitChar(n)>>
    ELSE DecimalDigits(n \div 10) \o <<DigitChar(n % 10)>>

\* text.padStart(width, "0")
RECURSIVE PadStart(_, _)
PadStart(t, width) == IF Len(t) >= width THEN t ELSE PadStart(<<"0">> \o t, width)

PaddedIndex(index) == PadStart(DecimalDigits(index), PadWidth)
PngName(index) == <<"capture-">> \o PaddedIndex(index) \o <<".png">>
JsonName(index) == <<"capture-">> \o PaddedIndex(index) \o <<".json">>

\* The session identifier: "session-" and the time of creation, to the second.
SessionId(t) == <<"session-">> \o DecimalDigits(t)

\* The file of a region crop: "capture-", the padded index, "-", the name of
\* the region, ".png".
CropName(index, regionName) ==
    <<"capture-">> \o PaddedIndex(index) \o <<"-">> \o regionName \o <<".png">>

\* new DebugManager({ enabled, saveRegionCrops }).
DebugManager(enabled, saveRegionCrops) ==
    [enabled |-> enabled, saveRegionCrops |-> saveRegionCrops, sessionDir |-> None,
     regionsDir |-> None, manifest |-> None, captureIndex |-> 0]

\* new DebugManager({ enabled }): saveRegionCrops defaults to false.
NewDebugManager(enabled) == DebugManager(enabled, FALSE)

\* An initSession without its first line.
initSessionAlways(d, dk, gameWindowConfig, t, fail) ==
    LET sessionId == SessionId(t)
        d1 == [d EXCEPT !.sessionDir = Some(sessionId), !.regionsDir = Some(sessionId)]
    IN  IF fail # "none"
        THEN [dbg |-> d1, disk |-> dk, threw |-> TRUE, noop |-> FALSE]
        ELSE [dbg |-> [d1 EXCEPT !.manifest = Some([sessionId |-> sessionId,
                                                     createdAt |-> t,
                                                     gameWindowConfig |-> gameWindowConfig,
                                                     captures |-> <<>>]),
                                 !.captureIndex = 0],
              disk |-> [dk EXCEPT !.dirs = @ \cup {sessionId}],
              threw |-> FALSE, noop |-> FALSE]

\* initSession(gameWindowConfig) at time t: the manager and the disk
\* afterwards, whether it threw, and whether it returned at its first line.
\* fail is how the mkdirSync of the session directory fails.  The regions
\* directory, a child of the session directory named after it here, is
\* created only when region crops are to be saved.
initSession(d, dk, gameWindowConfig, t, fail) ==
    IF ~d.enabled THEN [dbg |-> d, disk |-> dk, threw |-> FALSE, noop |-> TRUE]
    ELSE LET sessionId == SessionId(t)
             d1 == [d EXCEPT !.sessionDir = Some(sessionId), !.regionsDir = Some(sessionId)]
         IN  IF fail # "none"
             THEN [dbg |-> d1, disk |-> dk, threw |-> TRUE, noop |-> FALSE]
             ELSE [dbg |-> [d1 EXCEPT !.manifest = Some([sessionId |-> sessionId,
                                                          createdAt |-> t,
                                                          gameWindowConfig |-> gameWindowConfig,
                                                          captures |-> <<>>]),
                                      !.captureIndex = 0],
                   disk |-> [dk EXCEPT !.dirs = @ \cup {sessionId},
                                       !.regions = IF d.saveRegionCrops
                                                   THEN @ \cup {sessionId} ELSE @],
                   threw |-> FALSE, noop |-> FALSE]

\* saveRegionCrop(regionName, buffer): the crop goes to the regions directory
\* under the name of the capture counter as it stands.
saveRegionCrop(d, dk, regionName, buffer, fail) ==
    IF ~d.enabled \/ ~d.saveRegionCrops \/ d.regionsDir = None
    THEN [disk |-> dk, threw |-> FALSE, noop |-> TRUE]
    ELSE LET dir == d.regionsDir[1]
             filename == CropName(d.captureIndex, regionName)
             w == WriteFile(dk.crops, dk.regions, dir, <<dir, filename>>, buffer,
                            fail, BadFrame)
         IN  [disk |-> [dk EXCEPT !.crops = w.files], threw |-> w.threw, noop |-> FALSE]

\* A saveManifest that catches the error of its write.
saveManifestQuiet(d, dk, fail) ==
    IF d.sessionDir = None \/ d.manifest = None THEN [disk |-> dk, threw |-> FALSE]
    ELSE LET w == WriteFile(dk.manifest, dk.dirs, d.sessionDir[1], d.sessionDir[1],
                            StringifyManifest(d.manifest[1]), fail, JBad)
         IN  [disk |-> [dk EXCEPT !.manifest = w.files], threw |-> FALSE]

\* saveManifest(): rewrite manifest.json from this.manifest.
saveManifest(d, dk, fail) ==
    IF d.sessionDir = None \/ d.manifest = None THEN [disk |-> dk, threw |-> FALSE]
    ELSE LET w == WriteFile(dk.manifest, dk.dirs, d.sessionDir[1], d.sessionDir[1],
                            StringifyManifest(d.manifest[1]), fail, JBad)
         IN  [disk |-> [dk EXCEPT !.manifest = w.files], threw |-> w.threw]

\* saveCapture(screenshot, gameState).  failAt names the write the storage
\* fails ("png", "json", "manifest" or "none") and fail how it fails.
saveCapture(d, dk, screenshot, gameState, failAt, fail) ==
    IF ~d.enabled \/ d.sessionDir = None \/ d.manifest = None
    THEN [dbg |-> d, disk |-> dk, threw |-> FALSE, noop |-> TRUE]
    ELSE
    LET dir == d.sessionDir[1]
        d1 == [d EXCEPT !.captureIndex = @ + 1]
        filename == PngName(d1.captureIndex)
        jsonFilename == JsonName(d1.captureIndex)
        w1 == WriteFile(dk.png, dk.dirs, dir, <<dir, filename>>, screenshot,
                        IF failAt = "png" THEN fail ELSE "none", BadFrame)
        dk1 == [dk EXCEPT !.png = w1.files]
        w2 == WriteFile(dk1.json, dk1.dirs, dir, <<dir, jsonFilename>>,
                        StringifyGameState(gameState),
                        IF failAt = "json" THEN fail ELSE "none", JBad)
        dk2 == [dk1 EXCEPT !.json = w2.files]
        metadata == [index |-> d1.captureIndex, filename |-> filename,
                     capturedAt |-> gameState.timestamp, gameState |-> gameState]
        d2 == [d1 EXCEPT !.manifest = Some([@[1] EXCEPT !.captures = Append(@, metadata)])]
        w3 == saveManifest(d2, dk2, IF failAt = "manifest" THEN fail ELSE "none")
    IN  IF w1.threw THEN [dbg |-> d1, disk |-> dk1, threw |-> TRUE, noop |-> FALSE]
        ELSE IF w2.threw THEN [dbg |-> d1, disk |-> dk2, threw |-> TRUE, noop |-> FALSE]
        ELSE [dbg |-> d2, disk |-> w3.disk, threw |-> w3.threw, noop |-> FALSE]

(***************************************************************************)
(* HotkeyManager: accelerators and their matching.                         *)
(***************************************************************************)
LowerChars ==
    <<"a", "b", "c", "d", "e", "f", "g", "h", "i", "j", "k", "l", "m",
      "n", "o", "p", "q", "r", "s", "t", "u", "v", "w", "x", "y", "z">>
UpperChars ==
    <<"A", "B", "C", "D", "E", "F", "G", "H", "I", "J", "K", "L", "M",
      "N", "O", "P", "Q", "R", "S", "T", "U", "V", "W", "X", "Y", "Z">>

\* The character of alphabet to at the place c has in alphabet from; c
\* itself when it has none.
MapChar(c, from, to) ==
    IF \E i \in 1..Len(from) : from[i] = c
    THEN to[CHOOSE i \in 1..Len(from) : from[i] = c]
    ELSE c

\* text.toUpperCase(), text.toLowerCase()
toUpperCase(t) == [i \in 1..Len(t) |-> MapChar(t[i], LowerChars, UpperChars)]
toLowerCase(t) == [i \in 1..Len(t) |-> MapChar(t[i], UpperChars, LowerChars)]

\* text.split(sep): the parts of the text between the separators, in order;
\* one empty part for the empty text.
RECURSIVE Split(_, _)
Split(t, sep) ==
    IF \A i \in 1..Len(t) : t[i] # sep THEN <<t>>
    ELSE LET i == CHOOSE j \in 1..Len(t) :
                      t[j] = sep /\ \A m \in 1..(j - 1) : t[m] # sep
         IN  <<SubSeq(t, 1, i - 1)>> \o Split(SubSeq(t, i + 1, Len(t)), sep)

\* A parseAccelerator that keeps the key as it is written.
RECURSIVE parsePartsExact(_, _)
parsePartsExact(parts, result) ==
    IF parts = <<>> THEN result
    ELSE LET part == Head(parts)
             lower == toLowerCase(part)
         IN  parsePartsExact(Tail(parts),
                 IF lower = <<"c", "t", "r", "l">> \/ lower = <<"c", "o", "n", "t", "r", "o", "l">>
                 THEN [result EXCEPT !.ctrl = TRUE]
                 ELSE IF lower = <<"a", "l", "t">> THEN [result EXCEPT !.alt = TRUE]
                 ELSE IF lower = <<"s", "h", "i", "f", "t">> THEN [result EXCEPT !.shift = TRUE]
                 ELSE [result EXCEPT !.key = part])

\* The loop of parseAccelerator over the parts: a modifier name, in any
\* case, sets its flag; any other part, the empty part too, becomes the key.
RECURSIVE parseParts(_, _)
parseParts(parts, result) ==
    IF parts = <<>> THEN result
    ELSE LET part == Head(parts)
             lower == toLowerCase(part)
         IN  parseParts(Tail(parts),
                 IF lower = <<"c", "t", "r", "l">> \/ lower = <<"c", "o", "n", "t", "r", "o", "l">>
                 THEN [result EXCEPT !.ctrl = TRUE]
                 ELSE IF lower = <<"a", "l", "t">> THEN [result EXCEPT !.alt = TRUE]
                 ELSE IF lower = <<"s", "h", "i", "f", "t">> THEN [result EXCEPT !.shift = TRUE]
                 ELSE [result EXCEPT !.key = toUpperCase(part)])

NoModifiers == [ctrl |-> FALSE, alt |-> FALSE, shift |-> FALSE]

parseAcceleratorExact(accelerator) ==
    parsePartsExact(Split(accelerator, "+"),
                    [ctrl |-> FALSE, alt |-> FALSE, shift |-> FALSE, key |-> <<>>])

parseAccelerator(accelerator) ==
    parseParts(Split(accelerator, "+"),
               [ctrl |-> FALSE, alt |-> FALSE, shift |-> FALSE, key |-> <<>>])

\* The keys of the keyboard in the runs, by their UiohookKey names; Escape
\* stands for the keys keyCodeToName has no name for.
ModifierKeys == {"Ctrl", "CtrlRight", "Alt", "AltRight", "Shift", "ShiftRight"}
Keys == {"Ctrl", "CtrlRight", "Shift", "Alt", "F3", "A", "Escape"}

keyCodeToName(keyCode) ==
    IF keyCode = "F3" THEN Some(<<"F", "3">>)
    ELSE IF keyCode = "A" THEN Some(<<"A">>)
    ELSE None

\* matchHotkey(keyCode, parsed), with the modifier state as it stands.
matchHotkey(modifierState, keyCode, parsed) ==
    LET keyName == keyCodeToName(keyCode)
    IN  IF keyName = None THEN FALSE
        ELSE /\ modifierState.ctrl = parsed.ctrl
             /\ modifierState.alt = parsed.alt
             /\ modifierState.shift = parsed.shift
             /\ keyName[1] = parsed.key

\* new HotkeyManager().  hooked tells that uIOhook is running, listeners how
\* many keydown and keyup handlers start() has put on it; hotkeyMap lists
\* its entries in the order of their insertion.
NewHotkeyManager ==
    [isStarted |-> FALSE, hooked |-> FALSE, listeners |-> 0,
     modifierState |-> NoModifiers, hotkeyMap |-> <<>>]

\* HotkeyManager.start()
start(h) ==
    IF h.isStarted THEN h
    ELSE [h EXCEPT !.listeners = @ + 1, !.hooked = TRUE, !.isStarted = TRUE]

\* HotkeyManager.stop()
stop(h) ==
    IF ~h.isStarted THEN h
    ELSE [h EXCEPT !.hooked = FALSE, !.isStarted = FALSE, !.hotkeyMap = <<>>]

\* hotkeyMap.set(accelerator, value): the value of an entry already there is
\* replaced where it is, a new entry goes last.
MapSet(map, accelerator, value) ==
    IF \E i \in 1..Len(map) : map[i].accelerator = accelerator
    THEN [i \in 1..Len(map) |-> IF map[i].accelerator = accelerator THEN value ELSE map[i]]
    ELSE Append(map, value)

\* hotkeyMap.delete(accelerator)
MapDelete(map, accelerator) == SelectSeq(map, LAMBDA e : e.accelerator # accelerator)

\* HotkeyManager.register(accelerator, callback): the manager afterwards and
\* the value returned.
register(h, accelerator, callback) ==
    LET parsed == parseAccelerator(accelerator)
    IN  IF parsed.key = <<>> THEN [hotkeys |-> h, returned |-> FALSE]
        ELSE [hotkeys |-> [start(h) EXCEPT
                              !.hotkeyMap = MapSet(@, accelerator,
                                                   [accelerator |-> accelerator,
                                                    callback |-> callback,
                                                    parsed |-> parsed])],
              returned |-> TRUE]

\* HotkeyManager.unregister(accelerator)
unregister(h, accelerator) == [h EXCEPT !.hotkeyMap = MapDelete(@, accelerator)]

\* One keydown handler on the event of keyCode: the manager afterwards and
\* the callbacks it called.
keydown(h, keyCode) ==
    IF keyCode \in {"Ctrl", "CtrlRight"}
    THEN [hotkeys |-> [h EXCEPT !.modifierState.ctrl = TRUE], called |-> <<>>]
    ELSE IF keyCode \in {"Alt", "AltRight"}
    THEN [hotkeys |-> [h EXCEPT !.modifierState.alt = TRUE], called |-> <<>>]
    ELSE IF keyCode \in {"Shift", "ShiftRight"}
    THEN [hotkeys |-> [h EXCEPT !.modifierState.shift = TRUE], called |-> <<>>]
    ELSE LET hits == SelectSeq(h.hotkeyMap,
                               LAMBDA e : matchHotkey(h.modifierState, keyCode, e.parsed))
         IN  [hotkeys |-> h,
              called |-> IF hits = <<>> THEN <<>> ELSE <<Head(hits).callback>>]

\* One keyup handler on the event of keyCode.
keyup(h, keyCode) ==
    IF keyCode \in {"Ctrl", "CtrlRight"} THEN [h EXCEPT !.modifierState.ctrl = FALSE]
    ELSE IF keyCode \in {"Alt", "AltRight"} THEN [h EXCEPT !.modifierState.alt = FALSE]
    ELSE IF keyCode \in {"Shift", "ShiftRight"} THEN [h EXCEPT !.modifierState.shift = FALSE]
    ELSE h

\* The accelerators of the runs: "F3", "f3", "Ctrl+F3", "ctrl+f3", "F3+Ctrl",
\* "Shift+a", "Ctrl", "", "Ctrl+", "F3+".
Accelerators ==
    {<<"F", "3">>,
     <<"f", "3">>,
     <<"C", "t", "r", "l", "+", "F", "3">>,
     <<"c", "t", "r", "l", "+", "f", "3">>,
     <<"F", "3", "+", "C", "t", "r", "l">>,
     <<"S", "h", "i", "f", "t", "+", "a">>,
     <<"C", "t", "r", "l">>,
     <<>>,
     <<"C", "t", "r", "l", "+">>,
     <<"F", "3", "+">>}

(***************************************************************************)
(* State.                                                                  *)
(***************************************************************************)
VARIABLES
    now,        \* the clock: Date.now(), and the second a session id names
    screen,     \* the frame the game shows
    window,     \* the game window on the display: its size and position
    origin,     \* ScreenCapture.gameWindowOrigin
    ocrWorker,  \* GameStateParser.ocrWorker is set
    windowSize, \* GameStateParser.windowWidth and windowHeight
    inv,        \* the capture-and-extract or parse invocation in flight
    overlap,    \* a capture-and-extract invocation started while inv is in flight
    dbg,        \* the DebugManager
    disk,       \* the files under the debug output directory
    replay,     \* the ReplayManager
    outcome,    \* how the last operation ended, as its caller sees it
    hotkeys,    \* the HotkeyManager
    scout,      \* TftScout: its configuration and its gameWindowConfig
    held,       \* the modifier keys of the keyboard that are down
    used        \* how much of the bounds the run has used

vars == <<now, screen, window, origin, ocrWorker, windowSize, inv, overlap, dbg, disk,
          replay, outcome, hotkeys, scout, held, used>>
captureVars == <<screen, window, origin, ocrWorker, windowSize>>
recorderVars == <<dbg, disk, replay, outcome, used>>

Idle ==
    [pc |-> "idle", mode |-> "none", caller |-> "none", shot |-> BadFrame,
     p |-> NewParse(0), failed |-> {}, seen |-> <<>>, faults |-> 0, budget |-> 0,
     crops |-> {}]

\* How an operation ended: result is "ok" or "error"; fault names the storage
\* write that failed; noop tells that a recorder operation returned at its
\* first line; error is the class of the exception thrown and message what it
\* says; device tells whether the frame source was read; args and steps are
\* the arguments of a call of the Capture Adapter and the preprocessing it
\* applied.
Ended(op, result, fault, noop) ==
    [op |-> op, result |-> result, fault |-> fault, noop |-> noop,
     error |-> IF result = "error" THEN "Error" ELSE "none",
     message |-> IF result = "error" THEN "write failed" ELSE "none",
     device |-> FALSE, args |-> <<>>, steps |-> <<>>]

Raised(op, error, message) ==
    [Ended(op, "error", "none", FALSE) EXCEPT !.error = error, !.message = message]

NoOutcome == Ended("none", "none", "none", FALSE)
\* A ReplayManager before init: no manifest, and a ScreenCapture and a
\* GameStateParser of its own.  doc is the document init read, results what
\* its replays have returned so far, initThrew that its init raised an error.
NoReplay ==
    [path |-> <<>>, manifest |-> None, doc |-> None, origin |-> None,
     ocrWorker |-> FALSE, windowSize |-> BaseSize, results |-> <<>>,
     initThrew |-> FALSE]

\* The game windows of the model: one of the default size at the corner of
\* the display, and a larger one elsewhere.
GameWindow == [width |-> 1024, height |-> 768, x |-> 0, y |-> 0]
LargeWindow == [width |-> 1920, height |-> 1080, x |-> 64, y |-> 36]
GameWindows == {GameWindow, LargeWindow}
SizeOf(w) == [width |-> w.width, height |-> w.height]

\* What the crop of region k, placed for a window of the given size, shows
\* of frame f of the game: the text of the region when the crop is where the
\* game draws the region, and no text otherwise.
CropText(f, k, size) ==
    IF getScaledRegion(size, BASE_REGIONS[k]) = getScaledRegion(SizeOf(window), BASE_REGIONS[k])
    THEN FrameText(f, k)
    ELSE <<>>

\* ScreenCapture.captureGameRegionAsPng, then ocrWorker.recognize: the raw
\* text of region k of the screen, or None when one of them throws.
LiveReading(k, fault) ==
    IF origin = None THEN None
    ELSE IF fault THEN None
    ELSE IF ~ocrWorker THEN None
    ELSE Some(CropText(screen, k, windowSize))

\* ScreenCapture.extractRegionFromBuffer, then ocrWorker.recognize.
BufferReading(buffer, k, fault) ==
    IF buffer = BadFrame THEN None
    ELSE IF fault THEN None
    ELSE IF ~ocrWorker THEN None
    ELSE Some(CropText(buffer, k, windowSize))

\* What region k of a stored frame shows (nothing, if it cannot be decoded).
ShownText(buffer, k) == IF buffer = BadFrame THEN <<>> ELSE FrameText(buffer, k)

\* The state after construction: of a GameStateParser and a ScreenCapture
\* alone (InitExtract), and of a TftScout (Init).
\* No game window is on the display: findTftWindow returns null.
NoWindow == None

\* The size of the display: screen.width() and screen.height().
Display == [width |-> 1920, height |-> 1080]

\* The configuration a TftScout is constructed with: autoDetectWindow, and
\* the gameWindow members given (x and y may be left out).
Config(autoDetectWindow, width, height, x, y) ==
    [autoDetectWindow |-> autoDetectWindow,
     gameWindow |-> [width |-> width, height |-> height, x |-> x, y |-> y]]

\* new TftScout(): autoDetectWindow true, 1024 by 768, no position.
DefaultConfig == Config(TRUE, BASE_WIDTH, BASE_HEIGHT, None, None)

\* new TftScout(config): config is kept as given, gameWindowConfig is what
\* init works on.
NewTftScout(config) ==
    [config |-> config,
     autoDetectWindow |-> config.autoDetectWindow,
     gameWindowConfig |-> config.gameWindow]

\* The centered position of a window of the size of g on the display, when
\* g lacks x or y; g otherwise.
Centered(g) ==
    IF g.x = None \/ g.y = None
    THEN [g EXCEPT !.x = Some((Display.width - g.width) \div 2),
                   !.y = Some((Display.height - g.height) \div 2)]
    ELSE g

\* The gameWindowConfig init arrives at: the window detected when it is to
\* be detected and is found, else the configured position, else the
\* centered one.
initGameWindow(t, windowInfo) ==
    IF t.autoDetectWindow /\ windowInfo # NoWindow
    THEN [width |-> windowInfo.width, height |-> windowInfo.height,
          x |-> Some(windowInfo.x), y |-> Some(windowInfo.y)]
    ELSE Centered(t.gameWindowConfig)

\* gameWindowConfig as init passes it on, its position being set.
Placed(g) == [width |-> g.width, height |-> g.height, x |-> g.x[1], y |-> g.y[1]]

InitExtract ==
    /\ now = 0
    /\ screen = 1
    /\ window = GameWindow
    /\ origin = None
    /\ ocrWorker = FALSE
    /\ windowSize = BaseSize
    /\ inv = Idle
    /\ overlap = Idle
    /\ dbg = NewDebugManager(FALSE)
    /\ disk = EmptyDisk
    /\ replay = NoReplay
    /\ outcome = NoOutcome
    /\ hotkeys = NewHotkeyManager
    /\ scout = NewTftScout(DefaultConfig)
    /\ held = {}
    /\ used = [events |-> 0, sessions |-> 0]

Init ==
    /\ now = 0
    /\ screen = 1
    /\ window \in GameWindows
    /\ origin = None
    /\ ocrWorker = FALSE
    /\ windowSize = BaseSize
    /\ inv = Idle
    /\ overlap = Idle
    /\ \E enabled \in BOOLEAN : dbg = NewDebugManager(enabled)
    /\ disk = EmptyDisk
    /\ replay = NoReplay
    /\ outcome = NoOutcome
    /\ hotkeys = NewHotkeyManager
    /\ scout = NewTftScout(DefaultConfig)
    /\ held = {}
    /\ used = [events |-> 0, sessions |-> 0]

\* The configurations a TftScout is constructed with: the window detected
\* or not, a size, and a position given whole, in part or not at all.
Configs ==
    {Config(a, w, BASE_HEIGHT, x, y) :
        a \in BOOLEAN, w \in {BASE_WIDTH, BASE_WIDTH + 1},
        x \in {None, Some(100)}, y \in {None, Some(50)}}

\* A TftScout of any configuration, on a display where the game window is
\* present or not.
InitOrigin ==
    /\ now = 0
    /\ screen = 1
    /\ window \in {NoWindow} \cup GameWindows
    /\ origin = None
    /\ ocrWorker = FALSE
    /\ windowSize = BaseSize
    /\ inv = Idle
    /\ overlap = Idle
    /\ \E enabled \in BOOLEAN : dbg = NewDebugManager(enabled)
    /\ disk = EmptyDisk
    /\ replay = NoReplay
    /\ outcome = NoOutcome
    /\ hotkeys = NewHotkeyManager
    /\ \E config \in Configs : scout = NewTftScout(config)
    /\ held = {}
    /\ used = [events |-> 0, sessions |-> 0]

\* A HotkeyManager, its client and the keyboard.
InitHotkey ==
    /\ now = 0
    /\ screen = 1
    /\ window = GameWindow
    /\ origin = None
    /\ ocrWorker = FALSE
    /\ windowSize = BaseSize
    /\ inv = Idle
    /\ overlap = Idle
    /\ dbg = NewDebugManager(FALSE)
    /\ disk = EmptyDisk
    /\ replay = NoReplay
    /\ outcome = NoOutcome
    /\ hotkeys = NewHotkeyManager
    /\ scout = NewTftScout(DefaultConfig)
    /\ held = {}
    /\ used = [events |-> 0, sessions |-> 0]

\* A HotkeyManager whose client has registered two accelerators, the first
\* of them taken, so that the hook is running with no key down.
InitKeyboard ==
    /\ now = 0
    /\ screen = 1
    /\ window = GameWindow
    /\ origin = None
    /\ ocrWorker = FALSE
    /\ windowSize = BaseSize
    /\ inv = Idle
    /\ overlap = Idle
    /\ dbg = NewDebugManager(FALSE)
    /\ disk = EmptyDisk
    /\ replay = NoReplay
    /\ outcome = NoOutcome
    /\ \E a, b \in Accelerators :
        LET first == register(NewHotkeyManager, a, a)
        IN  /\ first.returned
            /\ hotkeys = register(first.hotkeys, b, b).hotkeys
    /\ scout = NewTftScout(DefaultConfig)
    /\ held = {}
    /\ used = [events |-> 0, sessions |-> 0]

\* TftScout with a DebugManager of any configuration: recording and the
\* saving of region crops each on or off.
InitRecorder ==
    /\ now = 0
    /\ screen = 1
    /\ window = GameWindow
    /\ origin = None
    /\ ocrWorker = FALSE
    /\ windowSize = BaseSize
    /\ inv = Idle
    /\ overlap = Idle
    /\ \E enabled \in BOOLEAN, saveRegionCrops \in BOOLEAN :
           dbg = DebugManager(enabled, saveRegionCrops)
    /\ disk = EmptyDisk
    /\ replay = NoReplay
    /\ outcome = NoOutcome
    /\ hotkeys = NewHotkeyManager
    /\ scout = NewTftScout(DefaultConfig)
    /\ held = {}
    /\ used = [events |-> 0, sessions |-> 0]

\* The sizes a game window is given in the runs of scaleRegion.
WindowWidths == {800, 1024, 1280, 1366, 1600, 1920}
WindowHeights == {600, 720, 768, 900, 1080}
WindowSizes == [width : WindowWidths, height : WindowHeights]

\* A GameStateParser whose window size has been set.
InitScale ==
    /\ now = 0
    /\ screen = 1
    /\ window = GameWindow
    /\ origin = None
    /\ ocrWorker = FALSE
    /\ windowSize \in WindowSizes
    /\ inv = Idle
    /\ overlap = Idle
    /\ dbg = NewDebugManager(FALSE)
    /\ disk = EmptyDisk
    /\ replay = NoReplay
    /\ outcome = NoOutcome
    /\ hotkeys = NewHotkeyManager
    /\ scout = NewTftScout(DefaultConfig)
    /\ held = {}
    /\ used = [events |-> 0, sessions |-> 0]

\* The bound on the run: n more events have happened.
Event(n) == [used EXCEPT !.events = @ + n]

\* No invocation is in flight.
Quiet == inv.pc = "idle" /\ overlap.pc = "idle"

\* Time passes between operations.
Tick ==
    /\ used.events < MaxEvents
    /\ Quiet
    /\ now' = now + 1
    /\ used' = Event(1)
    /\ UNCHANGED <<captureVars, inv, overlap, dbg, disk, replay, outcome>>
    /\ UNCHANGED hotkeys
    /\ UNCHANGED <<scout, held>>

\* The game draws its next frame.
ScreenChange ==
    /\ used.events < MaxEvents
    /\ overlap.pc = "idle"
    /\ screen < NumFrames
    /\ screen' = screen + 1
    /\ used' = Event(1)
    /\ UNCHANGED <<now, window, origin, ocrWorker, windowSize, inv, overlap, dbg, disk,
                   replay, outcome>>
    /\ UNCHANGED hotkeys
    /\ UNCHANGED <<scout, held>>

\* ScreenCapture.setGameWindowOrigin
SetGameWindowOrigin ==
    /\ used.events < MaxEvents
    /\ origin = None
    /\ Quiet
    /\ origin' = Some([x |-> window.x, y |-> window.y])
    /\ used' = Event(1)
    /\ UNCHANGED <<now, screen, window, ocrWorker, windowSize, inv, overlap, dbg, disk,
                   replay, outcome>>
    /\ UNCHANGED hotkeys
    /\ UNCHANGED <<scout, held>>

\* GameStateParser.init
ParserInit ==
    /\ used.events < MaxEvents
    /\ ~ocrWorker
    /\ Quiet
    /\ ocrWorker' = TRUE
    /\ used' = Event(1)
    /\ UNCHANGED <<now, screen, window, origin, windowSize, inv, overlap, dbg, disk,
                   replay, outcome>>
    /\ UNCHANGED hotkeys
    /\ UNCHANGED <<scout, held>>

\* GameStateParser.destroy
ParserDestroy ==
    /\ used.events < MaxEvents
    /\ ocrWorker
    /\ Quiet
    /\ ocrWorker' = FALSE
    /\ used' = Event(1)
    /\ UNCHANGED <<now, screen, window, origin, windowSize, inv, overlap, dbg, disk,
                   replay, outcome>>
    /\ UNCHANGED hotkeys
    /\ UNCHANGED <<scout, held>>

\* A caller invokes parse(screenshot, screenCapture).
CallParse ==
    /\ used.events < MaxEvents
    /\ Quiet
    /\ \E f \in 1..NumFrames :
        inv' = [Idle EXCEPT !.pc = "parse", !.mode = "live", !.caller = "direct",
                            !.shot = f, !.p = NewParse(now), !.budget = MaxFaults]
    /\ used' = Event(1)
    /\ UNCHANGED <<now, captureVars, overlap, dbg, disk, replay, outcome>>
    /\ UNCHANGED hotkeys
    /\ UNCHANGED <<scout, held>>

\* A caller invokes parseFromBuffer(screenshotBuffer, screenCapture).
CallParseFromBuffer ==
    /\ used.events < MaxEvents
    /\ Quiet
    /\ \E f \in {BadFrame} \cup 1..NumFrames :
        inv' = [Idle EXCEPT !.pc = "parse", !.mode = "buffer", !.caller = "direct",
                            !.shot = f, !.p = NewParse(now), !.budget = MaxFaults]
    /\ used' = Event(1)
    /\ UNCHANGED <<now, captureVars, overlap, dbg, disk, replay, outcome>>
    /\ UNCHANGED hotkeys
    /\ UNCHANGED <<scout, held>>

\* The arguments the calls of the Capture Adapter are given: a base region,
\* and whether the crop is for the recognizer.
AdapterArgs == {[region |-> k, forOCR |-> b] : k \in {StageIdx, GoldIdx}, b \in BOOLEAN}

\* The region of an adapter call, scaled as the parser scales it.
ArgRegion(a) == getScaledRegion(windowSize, BASE_REGIONS[a.region])

\* ScreenCapture.captureRegion(region): the full game window is grabbed.
\* The origin is not consulted.
CallCaptureRegion ==
    /\ used.events < MaxEvents
    /\ Quiet
    /\ outcome' = [Ended("captureRegion", "ok", "none", FALSE) EXCEPT !.device = TRUE]
    /\ used' = Event(1)
    /\ UNCHANGED <<now, captureVars, inv, overlap, dbg, disk, replay>>
    /\ UNCHANGED hotkeys
    /\ UNCHANGED <<scout, held>>

\* ScreenCapture.captureRegionAsPng(region, forOCR) on an absolute region.
captureRegionAsPng(op, a) ==
    [Ended(op, "ok", "none", FALSE) EXCEPT
        !.device = TRUE, !.args = a,
        !.steps = captureRegionAsPngSteps(a.forOCR, RegionWidth(ArgRegion(a)),
                                          RegionHeight(ArgRegion(a)))]

CallCaptureRegionAsPng ==
    /\ used.events < MaxEvents
    /\ Quiet
    /\ \E a \in AdapterArgs : outcome' = captureRegionAsPng("captureRegionAsPng", a)
    /\ used' = Event(1)
    /\ UNCHANGED <<now, captureVars, inv, overlap, dbg, disk, replay>>
    /\ UNCHANGED hotkeys
    /\ UNCHANGED <<scout, held>>

\* ScreenCapture.captureGameRegionAsPng(simpleRegion, forOCR): toAbsoluteRegion
\* throws when no origin is set, before the screen is grabbed.
CallCaptureGameRegionAsPng ==
    /\ used.events < MaxEvents
    /\ Quiet
    /\ \E a \in AdapterArgs :
        outcome' = IF origin = None
                   THEN [Raised("captureGameRegionAsPng", "Error",
                                "Game window origin not set") EXCEPT !.args = a]
                   ELSE captureRegionAsPng("captureGameRegionAsPng", a)
    /\ used' = Event(1)
    /\ UNCHANGED <<now, captureVars, inv, overlap, dbg, disk, replay>>
    /\ UNCHANGED hotkeys
    /\ UNCHANGED <<scout, held>>

\* ScreenCapture.extractRegionFromBuffer(screenshotBuffer, simpleRegion, forOCR)
CallExtractRegionFromBuffer ==
    /\ used.events < MaxEvents
    /\ Quiet
    /\ \E a \in AdapterArgs, buffer \in {BadFrame} \cup 1..NumFrames :
        outcome' = IF buffer = BadFrame
                   THEN [Raised("extractRegionFromBuffer", "Error",
                                "unsupported image format") EXCEPT !.args = a]
                   ELSE [Ended("extractRegionFromBuffer", "ok", "none", FALSE) EXCEPT
                            !.args = a,
                            !.steps = extractRegionFromBufferSteps(
                                          a.forOCR, RegionWidth(ArgRegion(a)),
                                          RegionHeight(ArgRegion(a)))]
    /\ used' = Event(1)
    /\ UNCHANGED <<now, captureVars, inv, overlap, dbg, disk, replay>>
    /\ UNCHANGED hotkeys
    /\ UNCHANGED <<scout, held>>

\* The next awaited field of the parse i: the invocation afterwards.
FieldStep(i, fault) ==
    LET k == i.p.k
        reading == IF i.mode = "live" THEN LiveReading(k, fault)
                   ELSE BufferReading(i.shot, k, fault)
        p2 == IF i.mode = "live" THEN LiveStep(i.p, reading)
              ELSE BufferStep(i.p, reading)
    IN  [i EXCEPT
           !.p = p2,
           !.failed = IF reading = None THEN @ \cup {k} ELSE @,
           !.seen = Append(@, IF i.mode = "live" THEN FrameText(screen, k)
                              ELSE ShownText(i.shot, k)),
           !.faults = IF fault THEN @ + 1 ELSE @,
           !.pc = IF p2.status = "run" THEN "parse"
                  ELSE IF p2.status = "raised" THEN "raised" ELSE "parsed"]

\* The next awaited field of the parse in flight.
ParseField ==
    /\ inv.pc = "parse"
    /\ \E fault \in IF inv.faults < inv.budget /\ used.events < MaxEvents
                     THEN BOOLEAN ELSE {FALSE} :
           /\ inv' = FieldStep(inv, fault)
           /\ used' = Event(IF fault THEN 1 ELSE 0)
    /\ UNCHANGED <<now, captureVars, overlap, dbg, disk, replay, outcome>>
    /\ UNCHANGED hotkeys
    /\ UNCHANGED <<scout, held>>

\* The fields of the parse i that remain, one after the other on the screen
\* as it is.
RECURSIVE ParseRest(_)
ParseRest(i) == IF i.pc # "parse" THEN i ELSE ParseRest(FieldStep(i, FALSE))

\* parse / parseFromBuffer returns gameState to a direct caller.
ParseReturn ==
    /\ inv.pc = "parsed"
    /\ inv.caller = "direct"
    /\ inv' = Idle
    /\ UNCHANGED <<now, captureVars, overlap, recorderVars>>
    /\ UNCHANGED hotkeys
    /\ UNCHANGED <<scout, held>>

\* The ways the storage may fail the next write, within the bound.
WriteFaults(spent) ==
    IF used.events + spent < MaxEvents THEN {"untouched", "truncated"} ELSE {}

\* TftScout.init: the window is looked for; the origin, the recognizer, the
\* parser's window size, and a debug session when debugging is enabled.
\* Each call starts a new session.
ScoutInit ==
    /\ Quiet
    /\ used.events < MaxEvents
    /\ scout' = [scout EXCEPT !.gameWindowConfig = initGameWindow(scout, window)]
    /\ origin' = Some([x |-> Placed(scout'.gameWindowConfig).x,
                       y |-> Placed(scout'.gameWindowConfig).y])
    /\ ocrWorker' = TRUE
    /\ windowSize' = SizeOf(scout'.gameWindowConfig)
    /\ \E fail \in {"none"} \cup (IF dbg.enabled THEN WriteFaults(1) \ {"truncated"} ELSE {}) :
        LET r == initSession(dbg, disk, Placed(initGameWindow(scout, window)), now, fail)
        IN  /\ dbg' = r.dbg
            /\ disk' = r.disk
            /\ outcome' = Ended("init", IF r.threw THEN "error" ELSE "ok",
                                 IF fail = "none" THEN "none" ELSE "mkdir", r.noop)
            /\ hotkeys' = IF r.threw THEN hotkeys ELSE start(hotkeys)
            /\ used' = [events |-> used.events + (IF fail = "none" THEN 1 ELSE 2),
                        sessions |-> used.sessions +
                                     (IF r.noop \/ r.threw THEN 0 ELSE 1)]
    /\ UNCHANGED <<now, screen, window, inv, overlap, replay, held>>

\* A captureAndParse at its first await, at time t: the full game window has
\* been captured, and parse starts.
Started(t) == [Idle EXCEPT !.pc = "parse", !.mode = "live", !.caller = "scout",
                           !.shot = screen, !.p = NewParse(t)]

\* The seconds that may pass between a call and the clock being read in it.
Elapsed == {0, 1}

\* TftScout.captureAndParse, to its first await.
CaptureAndParse ==
    /\ Quiet
    /\ used.events < MaxEvents
    /\ inv' = Started(now)
    /\ used' = Event(1)
    /\ UNCHANGED <<now, captureVars, overlap, dbg, disk, replay, outcome>>
    /\ UNCHANGED hotkeys
    /\ UNCHANGED <<scout, held>>

\* The hotkey fires again while a captureAndParse awaits its first field:
\* the keydown handler calls the callback, which calls captureAndParse;
\* nothing makes it wait for the invocation in flight.  The second
\* invocation runs to the return of its parse.
CaptureAndParseOverlap ==
    /\ inv.pc = "parse"
    /\ inv.p.k = 1
    /\ inv.caller = "scout"
    /\ overlap.pc = "idle"
    /\ used.events < MaxEvents
    /\ \E dt \in Elapsed :
        /\ now' = now + dt
        /\ overlap' = ParseRest(Started(now + dt))
    /\ used' = Event(1)
    /\ UNCHANGED <<captureVars, inv, dbg, disk, replay, outcome>>
    /\ UNCHANGED hotkeys
    /\ UNCHANGED <<scout, held>>

\* The writes saveCapture may see fail: none when it returns at its first
\* line.
CaptureFaults ==
    IF ~dbg.enabled \/ dbg.sessionDir = None \/ dbg.manifest = None THEN {}
    ELSE {"png", "json", "manifest"} \X WriteFaults(0)

\* A captureAndParse that hands saveCapture the GameState of the first
\* invocation, whichever invocation it is.
SaveMixed(i, f) ==
    IF dbg.enabled
    THEN saveCapture(dbg, disk, i.shot, inv.p.gs, f[1], f[2])
    ELSE [dbg |-> dbg, disk |-> disk, threw |-> FALSE, noop |-> TRUE]

\* captureAndParse of invocation i, after parse returned: saveCapture when
\* debugging is enabled.
Save(i, f) ==
    IF dbg.enabled
    THEN saveCapture(dbg, disk, i.shot, i.p.gs, f[1], f[2])
    ELSE [dbg |-> dbg, disk |-> disk, threw |-> FALSE, noop |-> TRUE]

\* TftScout.captureAndParse, after parse returned: saveCapture when
\* debugging is enabled, then the GameState (or saveCapture's error) goes to
\* the caller.
SaveCapture ==
    /\ inv.pc = "parsed"
    /\ inv.caller = "scout"
    /\ \E f \in {<<"none", "none">>} \cup CaptureFaults :
        LET r == Save(inv, f)
        IN  /\ dbg' = r.dbg
            /\ disk' = r.disk
            /\ outcome' = Ended("captureAndParse", IF r.threw THEN "error" ELSE "ok",
                                 f[1], r.noop)
            /\ used' = Event(IF f[1] = "none" THEN 0 ELSE 1)
    /\ inv' = Idle
    /\ UNCHANGED <<now, captureVars, overlap, replay>>
    /\ UNCHANGED hotkeys
    /\ UNCHANGED <<scout, held>>

\* The same, of the overlapping invocation.
SaveCaptureOverlap ==
    /\ overlap.pc = "parsed"
    /\ LET r == Save(overlap, <<"none", "none">>)
       IN  /\ dbg' = r.dbg
           /\ disk' = r.disk
           /\ outcome' = Ended("captureAndParse", IF r.threw THEN "error" ELSE "ok",
                                "none", r.noop)
    /\ overlap' = Idle
    /\ UNCHANGED <<now, captureVars, inv, replay, used>>
    /\ UNCHANGED hotkeys
    /\ UNCHANGED <<scout, held>>

\* The name a crop of region k is saved under.
RegionName(k) ==
    IF k = StageIdx THEN <<"stage">>
    ELSE IF k = GoldIdx THEN <<"gold">>
    ELSE IF k = LevelIdx THEN <<"level">>
    ELSE IF IsShopIdx(k) THEN <<"shopSlot">> \o DecimalDigits(k - ShopIdx(1) + 1)
    ELSE <<"benchSlot">> \o DecimalDigits(k - BenchIdx(1) + 1)

\* While a captureAndParse is extracting, the crop of the region it is about
\* to read is handed to saveRegionCrop.  inv.crops remembers the files the
\* invocation has written and the index in their names.
SaveRegionCrop ==
    /\ inv.pc = "parse"
    /\ inv.caller = "scout"
    /\ used.events < MaxEvents
    /\ \E fail \in {"none"} \cup (IF dbg.enabled /\ dbg.saveRegionCrops
                                   THEN WriteFaults(1) ELSE {}) :
        LET regionName == RegionName(inv.p.k)
            r == saveRegionCrop(dbg, disk, regionName, screen, fail)
            filename == CropName(dbg.captureIndex, regionName)
            written == ~r.noop /\ Has(r.disk.crops, <<dbg.regionsDir[1], filename>>)
        IN  /\ disk' = r.disk
            /\ inv' = [inv EXCEPT !.crops = IF written
                                            THEN @ \cup {[index |-> dbg.captureIndex,
                                                          filename |-> filename]}
                                            ELSE @]
            /\ outcome' = Ended("saveRegionCrop", IF r.threw THEN "error" ELSE "ok",
                                 IF fail = "none" THEN "none" ELSE "crop", r.noop)
            /\ used' = Event(IF fail = "none" THEN 1 ELSE 2)
    /\ UNCHANGED <<now, captureVars, overlap, dbg, replay>>
    /\ UNCHANGED hotkeys
    /\ UNCHANGED <<scout, held>>

\* GameStateParser.setWindowSize(width, height)
SetWindowSize ==
    /\ \E size \in WindowSizes :
           /\ size # windowSize
           /\ windowSize' = size
    /\ UNCHANGED <<now, screen, window, origin, ocrWorker, inv, overlap, recorderVars>>
    /\ UNCHANGED hotkeys
    /\ UNCHANGED <<scout, held>>

\* GameStateParser.getScaledRegion(region) on a base region: the scaled
\* region is returned.
CallGetScaledRegion ==
    /\ \E k \in 1..NumRegions :
           outcome' = [Ended("getScaledRegion", "ok", "none", FALSE) EXCEPT
                          !.args = [region |-> k,
                                    targetWidth |-> windowSize.width,
                                    targetHeight |-> windowSize.height,
                                    returned |-> getScaledRegion(windowSize,
                                                                 BASE_REGIONS[k])]]
    /\ UNCHANGED <<now, captureVars, inv, overlap, dbg, disk, replay, used>>
    /\ UNCHANGED hotkeys
    /\ UNCHANGED <<scout, held>>

\* The directories a replay may be pointed at.
SessionPaths == {SessionId(t) : t \in 0..now}

\* A document without its member key.
WithoutMember(obj, key) ==
    LET keep == {i \in 1..Len(obj.keys) : obj.keys[i] # key}
        Pick(seq) == [n \in 1..Cardinality(keep) |->
                         seq[CHOOSE i \in keep : Cardinality({j \in keep : j < i}) = n - 1]]
    IN  JObj(Pick(obj.keys), Pick(obj.c))

\* What a manifest file may hold after something other than the recorder
\* has written it: no JSON text, an empty object, the manifest without its
\* captures, the manifest without its sessionId.
Damaged(doc) ==
    {JBad, JObj(<<>>, <<>>)} \cup
    (IF doc.t = "obj"
     THEN {WithoutMember(doc, "captures"), WithoutMember(doc, "sessionId")}
     ELSE {})

\* A manifest file is damaged.
ManifestDamaged ==
    /\ used.events < MaxEvents
    /\ Quiet
    /\ \E path \in DOMAIN disk.manifest :
        \E doc \in Damaged(disk.manifest[path]) \ {disk.manifest[path]} :
            disk' = [disk EXCEPT !.manifest = Put(@, path, doc)]
    /\ used' = Event(1)
    /\ UNCHANGED <<now, captureVars, inv, overlap, dbg, replay, outcome>>
    /\ UNCHANGED hotkeys
    /\ UNCHANGED <<scout, held>>

\* new ReplayManager(sessionPath), then init().  this.manifest is assigned
\* before the origin is read from it and before the number of its captures
\* is logged; the parser's window size is left as constructed.
ReplayInit ==
    /\ used.events < MaxEvents
    /\ Quiet
    /\ used' = Event(1)
    /\ \E path \in SessionPaths :
        IF ~Has(disk.manifest, path) THEN
            /\ replay' = [NoReplay EXCEPT !.path = path, !.initThrew = TRUE]
            /\ outcome' = Raised("replayInit", "Error", "Manifest not found")
        ELSE IF disk.manifest[path].t = "bad" THEN
            /\ replay' = [NoReplay EXCEPT !.path = path, !.doc = Some(disk.manifest[path]),
                                          !.initThrew = TRUE]
            /\ outcome' = Raised("replayInit", "SyntaxError", "Unexpected end of JSON input")
        ELSE
            LET doc == disk.manifest[path]
                manifest == ParseManifest(doc)
            IN  IF Member(doc, "gameWindowConfig").t # "obj" THEN
                    /\ replay' = [NoReplay EXCEPT !.path = path, !.doc = Some(doc),
                                                  !.manifest = Some(manifest),
                                                  !.initThrew = TRUE]
                    /\ outcome' = Raised("replayInit", "TypeError",
                                         "Cannot read properties of undefined")
                ELSE
                    /\ replay' = [NoReplay EXCEPT
                                    !.path = path, !.doc = Some(doc),
                                    !.manifest = Some(manifest),
                                    !.origin = Some([x |-> manifest.gameWindowConfig.x,
                                                     y |-> manifest.gameWindowConfig.y]),
                                    !.ocrWorker = TRUE,
                                    !.initThrew = Member(doc, "captures").t
                                                      \in {"undefined", "null"}]
                    /\ outcome' = IF Member(doc, "captures").t \in {"undefined", "null"}
                                  THEN Raised("replayInit", "TypeError",
                                              "Cannot read properties of undefined")
                                  ELSE Ended("replayInit", "ok", "none", FALSE)
    /\ UNCHANGED <<now, captureVars, inv, overlap, dbg, disk>>
    /\ UNCHANGED hotkeys
    /\ UNCHANGED <<scout, held>>

\* extractRegionFromBuffer, then recognize, by the replayer's own
\* ScreenCapture and GameStateParser.
ReplayReading(buffer, k) ==
    IF buffer = BadFrame THEN None
    ELSE IF ~replay.ocrWorker THEN None
    ELSE Some(CropText(buffer, k, replay.windowSize))

\* replayCapture(capture) at time t: what it returns, or that it threw (the
\* frame file cannot be read).
replayCapture(capture, t) ==
    LET screenshotPath == <<replay.path, capture.filename>>
    IN  IF ~Has(disk.png, screenshotPath)
        THEN [threw |-> TRUE, result |-> None, frame |-> BadFrame]
        ELSE LET screenshot == disk.png[screenshotPath]
                 reparsed == RunParse("buffer", NewParse(t),
                                      [k \in 1..NumRegions |-> ReplayReading(screenshot, k)]).gs
             IN  [threw |-> FALSE,
                  result |-> Some([original |-> capture.gameState,
                                   reparsed |-> reparsed,
                                   screenshotPath |-> screenshotPath]),
                  frame |-> screenshot]

\* A loop of replayAll whose push puts the result first.
PushResultFirst(results, result) == <<result>> \o results

\* results.push(result)
PushResult(results, result) == Append(results, result)

\* The loop of replayAll from capture k on: the results, the frames read,
\* and whether a replayCapture threw.
RECURSIVE replayAllFrom(_, _, _, _, _)
replayAllFrom(captures, k, results, frames, t) ==
    IF k > Len(captures) THEN [threw |-> FALSE, results |-> results, frames |-> frames]
    ELSE LET r == replayCapture(captures[k], t)
         IN  IF r.threw THEN [threw |-> TRUE, results |-> <<>>, frames |-> <<>>]
             ELSE replayAllFrom(captures, k + 1, PushResult(results, r.result[1]),
                                Append(frames, r.frame), t)

\* The replayer's record of a replay that returned: what was asked (0 for
\* all captures, else the index), the frames read and the results.
Replayed(arg, frames, results) == [arg |-> arg, frames |-> frames, results |-> results]

\* The replayer after a replay returned entry e: the last two are kept.
Remember(e) == [replay EXCEPT !.results = IF @ = <<>> THEN <<e>> ELSE <<@[Len(@)], e>>]

\* The manifest loaded has a captures array.
HasCaptures == Member(replay.doc[1], "captures").t = "arr"

\* replayAll()
ReplayAll ==
    /\ used.events < MaxEvents
    /\ Quiet
    /\ used' = Event(1)
    /\ \E dt \in Elapsed :
        /\ now' = now + dt
        /\ IF replay.manifest = None THEN
               /\ outcome' = Raised("replayAll", "Error", "ReplayManager not initialized")
               /\ UNCHANGED replay
           ELSE IF ~HasCaptures THEN
               /\ outcome' = Raised("replayAll", "TypeError", "captures is not iterable")
               /\ UNCHANGED replay
           ELSE LET r == replayAllFrom(replay.manifest[1].captures, 1, <<>>, <<>>, now + dt)
                IN  IF r.threw THEN
                        /\ outcome' = Raised("replayAll", "Error", "no such file")
                        /\ UNCHANGED replay
                    ELSE
                        /\ outcome' = Ended("replayAll", "ok", "none", FALSE)
                        /\ replay' = Remember(Replayed(0, r.frames, r.results))
    /\ UNCHANGED <<captureVars, inv, overlap, dbg, disk>>
    /\ UNCHANGED hotkeys
    /\ UNCHANGED <<scout, held>>

\* The indices a caller may ask replayByIndex for: those up to one past the
\* largest recorded.
ReplayIndices ==
    IF replay.manifest = None THEN {1}
    ELSE LET captures == replay.manifest[1].captures
         IN  1..(Max({0} \cup {captures[n].index : n \in 1..Len(captures)}) + 1)

\* captures.find(c => c.index === index): the position of the first such
\* capture, or 0.
FindIndex(captures, index) ==
    LET hits == {n \in 1..Len(captures) : captures[n].index = index}
    IN  IF hits = {} THEN 0 ELSE Min(hits)

\* replayByIndex(index)
ReplayByIndex ==
    /\ used.events < MaxEvents
    /\ Quiet
    /\ used' = Event(1)
    /\ \E index \in ReplayIndices, dt \in Elapsed :
        /\ now' = now + dt
        /\ IF replay.manifest = None THEN
               /\ outcome' = [Raised("replayByIndex", "Error", "ReplayManager not initialized")
                                 EXCEPT !.args = [index |-> index]]
               /\ UNCHANGED replay
           ELSE IF ~HasCaptures THEN
               /\ outcome' = [Raised("replayByIndex", "TypeError",
                                     "Cannot read properties of undefined")
                                 EXCEPT !.args = [index |-> index]]
               /\ UNCHANGED replay
           ELSE LET captures == replay.manifest[1].captures
                    n == FindIndex(captures, index)
                IN  IF n = 0 THEN
                        /\ outcome' = [Raised("replayByIndex", "Error", "Capture not found")
                                          EXCEPT !.args = [index |-> index]]
                        /\ UNCHANGED replay
                    ELSE LET r == replayCapture(captures[n], now + dt)
                         IN  IF r.threw THEN
                                 /\ outcome' = [Raised("replayByIndex", "Error", "no such file")
                                                   EXCEPT !.args = [index |-> index]]
                                 /\ UNCHANGED replay
                             ELSE
                                 /\ outcome' = [Ended("replayByIndex", "ok", "none", FALSE)
                                                   EXCEPT !.args = [index |-> index]]
                                 /\ replay' = Remember(Replayed(index, <<r.frame>>,
                                                                <<r.result[1]>>))
    /\ UNCHANGED <<captureVars, inv, overlap, dbg, disk>>
    /\ UNCHANGED hotkeys
    /\ UNCHANGED <<scout, held>>

NextExtract ==
    \/ Tick
    \/ ScreenChange
    \/ SetGameWindowOrigin
    \/ ParserInit
    \/ ParserDestroy
    \/ CallParse
    \/ CallParseFromBuffer
    \/ ParseField
    \/ ParseReturn
    \/ CallCaptureRegion
    \/ CallCaptureRegionAsPng
    \/ CallCaptureGameRegionAsPng
    \/ CallExtractRegionFromBuffer

Next ==
    \/ Tick
    \/ ScreenChange
    \/ ScoutInit
    \/ CaptureAndParse
    \/ CaptureAndParseOverlap
    \/ ParseField
    \/ SaveCapture
    \/ SaveCaptureOverlap
    \/ ManifestDamaged
    \/ ReplayInit
    \/ ReplayAll
    \/ ReplayByIndex

\* What the HotkeyManager's actions leave alone.
hotkeyFrame == <<now, captureVars, inv, overlap, dbg, disk, replay>>

\* HotkeyManager.start()
CallStart ==
    /\ used.events < MaxEvents
    /\ hotkeys' = start(hotkeys)
    /\ outcome' = Ended("start", "ok", "none", hotkeys.isStarted)
    /\ used' = Event(1)
    /\ UNCHANGED hotkeyFrame
    /\ UNCHANGED <<scout, held>>

\* HotkeyManager.stop()
CallStop ==
    /\ used.events < MaxEvents
    /\ hotkeys' = stop(hotkeys)
    /\ outcome' = Ended("stop", "ok", "none", ~hotkeys.isStarted)
    /\ used' = Event(1)
    /\ UNCHANGED hotkeyFrame
    /\ UNCHANGED <<scout, held>>

\* HotkeyManager.register(accelerator, callback); the callback is named after
\* the accelerator it is registered with.
CallRegister ==
    /\ used.events < MaxEvents
    /\ \E accelerator \in Accelerators :
        LET r == register(hotkeys, accelerator, accelerator)
        IN  /\ hotkeys' = r.hotkeys
            /\ outcome' = [Ended("register", "ok", "none", FALSE) EXCEPT
                              !.args = [accelerator |-> accelerator,
                                        returned |-> r.returned]]
    /\ used' = Event(1)
    /\ UNCHANGED hotkeyFrame
    /\ UNCHANGED <<scout, held>>

\* HotkeyManager.unregister(accelerator), of a registered accelerator.
CallUnregister ==
    /\ used.events < MaxEvents
    /\ \E i \in 1..Len(hotkeys.hotkeyMap) :
        LET accelerator == hotkeys.hotkeyMap[i].accelerator
        IN  /\ hotkeys' = unregister(hotkeys, accelerator)
            /\ outcome' = [Ended("unregister", "ok", "none", FALSE) EXCEPT
                              !.args = [accelerator |-> accelerator]]
    /\ used' = Event(1)
    /\ UNCHANGED hotkeyFrame
    /\ UNCHANGED <<scout, held>>

\* The event of keyCode goes to each of the n keydown handlers in turn.
RECURSIVE Deliver(_, _, _)
Deliver(h, keyCode, n) ==
    IF n = 0 THEN [hotkeys |-> h, called |-> <<>>]
    ELSE LET first == keydown(h, keyCode)
             rest == Deliver(first.hotkeys, keyCode, n - 1)
         IN  [hotkeys |-> rest.hotkeys, called |-> first.called \o rest.called]

\* A key goes down, or repeats while it is held down: uIOhook, when it is
\* running, calls every keydown handler put on it.  outcome.args.called
\* lists the callbacks called.
KeyDown ==
    /\ used.events < MaxEvents
    /\ \E keyCode \in Keys :
        LET r == IF hotkeys.hooked THEN Deliver(hotkeys, keyCode, hotkeys.listeners)
                 ELSE [hotkeys |-> hotkeys, called |-> <<>>]
        IN  /\ held' = held \cup ({keyCode} \cap ModifierKeys)
            /\ hotkeys' = r.hotkeys
            /\ outcome' = [Ended("keydown", "ok", "none", FALSE) EXCEPT
                              !.args = [keyCode |-> keyCode, called |-> r.called]]
    /\ used' = Event(1)
    /\ UNCHANGED hotkeyFrame
    /\ UNCHANGED scout

\* A key goes up, a modifier key only when it is down: uIOhook, when it is running, calls the keyup handlers.
KeyUp ==
    /\ used.events < MaxEvents
    /\ \E keyCode \in (Keys \ ModifierKeys) \cup held :
        /\ held' = held \ {keyCode}
        /\ hotkeys' = IF hotkeys.hooked /\ hotkeys.listeners > 0
                      THEN keyup(hotkeys, keyCode) ELSE hotkeys
        /\ outcome' = [Ended("keyup", "ok", "none", FALSE) EXCEPT
                          !.args = [keyCode |-> keyCode]]
    /\ used' = Event(1)
    /\ UNCHANGED hotkeyFrame
    /\ UNCHANGED scout

NextHotkey ==
    \/ CallStart
    \/ CallStop
    \/ CallRegister
    \/ CallUnregister
    \/ KeyDown
    \/ KeyUp

NextScale ==
    \/ SetWindowSize
    \/ CallGetScaledRegion

NextRecorder ==
    \/ Tick
    \/ ScoutInit
    \/ CaptureAndParse
    \/ ParseField
    \/ SaveRegionCrop
    \/ SaveCapture

\* The State Extractor alone, called directly, in any environment.
SpecExtract == InitExtract /\ [][NextExtract]_vars

\* The live system: TftScout with its recorder, and replays of its sessions.
Spec == Init /\ [][Next]_vars

\* The game window appears, moves or goes away between two calls of init.
WindowChange ==
    /\ used.events < MaxEvents
    /\ Quiet
    /\ window' \in ({NoWindow} \cup GameWindows) \ {window}
    /\ used' = Event(1)
    /\ UNCHANGED <<now, screen, origin, ocrWorker, windowSize, inv, overlap,
                   dbg, disk, replay, outcome, hotkeys, scout, held>>

NextOrigin ==
    \/ ScoutInit
    \/ WindowChange

\* TftScout.init under every configuration, the game window coming and going.
SpecOrigin == InitOrigin /\ [][NextOrigin]_vars

NextKeyboard ==
    \/ KeyDown
    \/ KeyUp

\* A started HotkeyManager and the keyboard alone.
SpecKeyboard == InitKeyboard /\ [][NextKeyboard]_vars

\* The HotkeyManager alone, with a client and a keyboard.
SpecHotkey == InitHotkey /\ [][NextHotkey]_vars

\* The scaling of the base regions, on a parser of any window size.
SpecScale == InitScale /\ [][NextScale]_vars

\* TftScout and its recorder, with region crops saved during extraction.
SpecRecorder == InitRecorder /\ [][NextRecorder]_vars
(***************************************************************************)
(* Properties of the State Extractor (under SpecExtract).                  *)
(***************************************************************************)
\* The Snapshot the entry point in flight has returned.
Snapshot == inv.p.gs
Returns == inv.pc = "parsed"

AllRegions == 1..NumRegions

AllAbsent(gs) ==
    /\ gs.stage = None
    /\ gs.shop.gold = None
    /\ gs.shop.level = None
    /\ gs.shop.xp = None
    /\ \A i \in 1..Len(gs.shop.units) : gs.shop.units[i] = None
    /\ \A j \in 1..Len(gs.bench) : gs.bench[j] = None

\* The snapshot gs with the field read from region k absent (the level
\* region carries two values, level and xp).
Blank(gs, k) ==
    IF k = StageIdx THEN [gs EXCEPT !.stage = None]
    ELSE IF k = GoldIdx THEN [gs EXCEPT !.shop.gold = None]
    ELSE IF k = LevelIdx THEN [gs EXCEPT !.shop.level = None, !.shop.xp = None]
    ELSE IF IsShopIdx(k) THEN [gs EXCEPT !.shop.units[k - 3] = None]
    ELSE [gs EXCEPT !.bench[k - 3 - ShopSlotCount] = None]

\* The snapshot an entry point produces when every crop and every
\* recognition succeeds on the texts the regions showed when they were read.
NoFailureSnapshot(mode) ==
    RunParse(mode, NewParse(Snapshot.timestamp),
             [i \in 1..Len(inv.seen) |-> Some(inv.seen[i])]).gs

\* C1: every Snapshot parse or parseFromBuffer returns has exactly 5
\* shop.units entries and exactly 9 bench entries, whichever crops and
\* recognitions failed, all of them and the recognizer never having been
\* initialised included.
C1_SlotCounts ==
    Returns =>
        /\ Len(Snapshot.shop.units) = ShopSlotCount
        /\ Len(Snapshot.bench) = BenchSlotCount

C1_Witness ==
    /\ Returns
    /\ ~ocrWorker
    /\ inv.failed = AllRegions
    /\ Len(Snapshot.shop.units) = ShopSlotCount
    /\ Len(Snapshot.bench) = BenchSlotCount

\* C2: neither entry point ever raises to its caller; the outer catch block
\* is never entered, because each field function catches its own failures;
\* and when the failure is one of the whole sequence (no origin, no
\* recognizer, an undecodable frame: every region fails) the Snapshot
\* returned has every field absent.
C2_AlwaysReturns ==
    /\ inv.pc # "raised"
    /\ inv.p.status \notin {"caught", "raised"}
    /\ (Returns /\ inv.failed = AllRegions) => AllAbsent(Snapshot)

C2_Witness ==
    /\ Returns
    /\ inv.mode = "live"
    /\ origin = None
    /\ inv.failed = AllRegions
    /\ AllAbsent(Snapshot)

\* C3: when the crop or the recognition fails for exactly one region, every
\* region is still read, the field of that region is absent, and every other
\* field has the value it has when nothing fails.
C3_FieldIsolation ==
    (Returns /\ Cardinality(inv.failed) = 1) =>
        /\ inv.p.status = "done"
        /\ Len(inv.seen) = NumRegions
        /\ \A k \in inv.failed : Snapshot = Blank(NoFailureSnapshot(inv.mode), k)

C3_Witness ==
    /\ Returns
    /\ inv.mode = "live"
    /\ inv.failed = {BenchIdx(1)}
    /\ Snapshot.bench[1] = None
    /\ Snapshot.bench[4] # None
    /\ Snapshot.stage # None
    /\ NoFailureSnapshot("live").bench[1] # None

\* C4: on the same recognized texts, parse and parseFromBuffer produce the
\* same stage, gold, level, xp, shop.units and bench.
C4_SameRules ==
    (Returns /\ inv.failed = {}) =>
        /\ Snapshot = NoFailureSnapshot("live")
        /\ Snapshot = NoFailureSnapshot("buffer")
(***************************************************************************)
(* Properties of the live system and of its recorder (under Spec).         *)
(***************************************************************************)
\* The Snapshot parse produces from frame f when nothing fails and the
\* screen keeps showing f.
SnapshotOfFrame(f, ts) ==
    RunParse("live", NewParse(ts), [k \in AllRegions |-> Some(FrameText(f, k))]).gs

\* C5: the Snapshot captureAndParse computes is the Snapshot of the frame it
\* acquired, the one the recorder stores, whatever the screen shows later.
C5_SnapshotOfAcquiredFrame ==
    (Returns /\ inv.caller = "scout" /\ inv.failed = {}) =>
        Snapshot = SnapshotOfFrame(inv.shot, Snapshot.timestamp)

\* The session the recorder has open: its directory and its manifest.
SessionOpen == dbg.enabled /\ dbg.sessionDir # None /\ dbg.manifest # None
SessionDir == dbg.sessionDir[1]
Captures == dbg.manifest[1].captures

\* C6: in an open session the i-th entry of the manifest's captures has
\* index i (the index grows by one per recorded capture, from 1).
C6_IndexOrder ==
    SessionOpen => \A i \in 1..Len(Captures) : Captures[i].index = i

\* The manifest file of the open session holds the in-memory manifest.
ManifestPersisted ==
    /\ Has(disk.manifest, SessionDir)
    /\ disk.manifest[SessionDir] = StringifyManifest(dbg.manifest[1])

\* saveCapture has just returned without an error, having recorded.
RecordedOk ==
    /\ outcome.op = "captureAndParse"
    /\ outcome.result = "ok"
    /\ ~outcome.noop

\* The first half of C7: when saveCapture returns without an error, the
\* manifest file equals the in-memory manifest, whose last record is the one
\* of this capture.
PersistedOnReturn ==
    RecordedOk =>
        /\ SessionOpen
        /\ ManifestPersisted
        /\ Len(Captures) >= 1
        /\ Captures[Len(Captures)].index = dbg.captureIndex

\* The step of saveCapture keeps every record the manifest file holds.
KeepsPersistedRecords ==
    (inv.pc = "parsed" /\ inv'.pc = "idle" /\ SessionOpen /\ ManifestPersisted) =>
        /\ Has(disk'.manifest, SessionDir)
        /\ disk'.manifest[SessionDir].t # "bad"
        /\ LET kept == ParseManifest(disk'.manifest[SessionDir]).captures
           IN  /\ Len(kept) >= Len(Captures)
               /\ \A i \in 1..Len(Captures) : kept[i] = Captures[i]

\* C7: the manifest is persisted after every append, and no record persisted
\* by a call that returned is lost at any later point, a later call whose
\* write of the manifest fails part-way included.
C7_PersistedAndDurable == []PersistedOnReturn /\ [][KeepsPersistedRecords]_vars

\* C8: a storage write that fails during initSession or saveCapture reaches
\* the caller of init or captureAndParse as an error.
C8_StorageFailurePropagates ==
    outcome.fault # "none" => outcome.result = "error"

C8_Witness ==
    /\ outcome.op = "captureAndParse"
    /\ outcome.fault = "manifest"
    /\ outcome.result = "error"

\* The frame artifacts in the directory of the open session, and the
\* captures its manifest file lists, by file name.
FramesOnDisk == {key[2] : key \in {k \in DOMAIN disk.png : k[1] = SessionDir}}
FramesListed ==
    IF Has(disk.manifest, SessionDir) /\ disk.manifest[SessionDir].t # "bad"
    THEN LET listed == ParseManifest(disk.manifest[SessionDir]).captures
         IN  {listed[i].filename : i \in 1..Len(listed)}
    ELSE {}

\* C9: whichever writes failed, the captures the manifest file lists are the
\* frame artifacts in the session directory.
C9_ManifestAgreesWithDisk ==
    SessionOpen => FramesListed = FramesOnDisk

\* A replay has just loaded the manifest file the recorder wrote from its
\* in-memory manifest.
LoadedOwnManifest ==
    /\ outcome.op = "replayInit"
    /\ outcome.result = "ok"
    /\ SessionOpen
    /\ replay.path = SessionDir
    /\ ManifestPersisted

\* C10: a CaptureRecord the recorder wrote and the replayer's manifest load
\* read back has the same index, filename and snapshot (absent entries and
\* the timestamp included).
C10_RoundTrip ==
    LoadedOwnManifest =>
        LET loaded == replay.manifest[1].captures
        IN  /\ Len(loaded) = Len(Captures)
            /\ \A i \in 1..Len(Captures) :
                /\ loaded[i].index = Captures[i].index
                /\ loaded[i].filename = Captures[i].filename
                /\ loaded[i].gameState = Captures[i].gameState

C10_Witness ==
    /\ LoadedOwnManifest
    /\ Len(Captures) >= 1
    /\ replay.manifest[1].captures[1].gameState = Captures[1].gameState
    /\ Captures[1].gameState.stage # None
    /\ Captures[1].gameState.bench[1] # None
    /\ Captures[1].gameState.bench[2] = None

\* The capture operations of the Capture Adapter.
CaptureOps == {"captureRegion", "captureRegionAsPng", "captureGameRegionAsPng"}

\* C16: while no origin is set, every capture operation of the Capture
\* Adapter, of the full window and of a region, fails with the error of the
\* unset origin and has not grabbed the screen.
C16_NoOriginNoCapture ==
    (outcome.op \in CaptureOps /\ origin = None) =>
        /\ outcome.result = "error"
        /\ outcome.message = "Game window origin not set"
        /\ ~outcome.device

\* The crops of a region for the recognizer that returned: from the screen,
\* and from a stored frame.
LiveCropOps == {"captureRegionAsPng", "captureGameRegionAsPng"}
LiveCropped == outcome.op \in LiveCropOps /\ outcome.result = "ok"
StoredCropped == outcome.op = "extractRegionFromBuffer" /\ outcome.result = "ok"
CroppedWidth == RegionWidth(ArgRegion(outcome.args))
CroppedHeight == RegionHeight(ArgRegion(outcome.args))

\* The preprocessing asked of both: three times the size, grayscale,
\* normalize, threshold at 160, sharpen.
Preprocessing(width, height) ==
    <<Step("resize", 3 * width, 3 * height, "lanczos3", 0),
      Step("grayscale", 0, 0, "", 0),
      Step("normalize", 0, 0, "", 0),
      Step("threshold", 0, 0, "", 160),
      Step("sharpen", 0, 0, "", 0)>>

\* C18: a crop from the screen has run the steps the crop of the same region
\* from a stored frame runs, and the other way round; with forOCR these are
\* the five steps in order and with their parameters, and without it none.
C18_SamePreprocessing ==
    /\ LiveCropped =>
          outcome.steps = extractRegionFromBufferSteps(outcome.args.forOCR,
                                                       CroppedWidth, CroppedHeight)
    /\ StoredCropped =>
          outcome.steps = captureRegionAsPngSteps(outcome.args.forOCR,
                                                  CroppedWidth, CroppedHeight)
    /\ (LiveCropped \/ StoredCropped) =>
          outcome.steps = IF outcome.args.forOCR
                          THEN Preprocessing(CroppedWidth, CroppedHeight)
                          ELSE <<>>

C18_Witness ==
    /\ outcome.op = "captureGameRegionAsPng"
    /\ outcome.result = "ok"
    /\ outcome.args.forOCR
    /\ Len(outcome.steps) = 5
    /\ outcome.steps[1].width = 3 * CroppedWidth
    /\ outcome.steps[1].width > 0
    /\ outcome.steps[4].level = 160

\* C17: a captureAndParse made while no origin is set does not come to a
\* GameState: its parse does not return one, and the call ends in an error.
C17_UnsetOriginRaised ==
    /\ (inv.caller = "scout" /\ origin = None) => inv.pc # "parsed"
    /\ (outcome.op = "captureAndParse" /\ origin = None) => outcome.result = "error"

\* C19: no captureAndParse is started while another is in flight.
C19_OneInFlight == ~(inv.pc # "idle" /\ overlap.pc # "idle")

\* C20: the sessions started have each a directory of their own: there are
\* as many session directories as initSession calls that started a session.
C20_OwnDirectory == Cardinality(disk.dirs) = used.sessions

\* A replayer has just been opened on a manifest.
ReplayOpened == outcome.op = "replayInit" /\ outcome.result = "ok"

\* C12: after a replayer is opened, its crops of a stored frame are placed
\* by the base regions scaled to the width and height the manifest records,
\* and its origin is the one the manifest records.
C12_SurfaceRestored ==
    ReplayOpened =>
        LET recorded == replay.manifest[1].gameWindowConfig
        IN  /\ replay.origin = Some([x |-> recorded.x, y |-> recorded.y])
            /\ \A k \in 1..NumRegions :
                  getScaledRegion(replay.windowSize, BASE_REGIONS[k]) =
                      scaleRegion(BASE_REGIONS[k], recorded.width, recorded.height)

\* A manifest document of the expected shape: an object with a sessionId, a
\* createdAt, a gameWindowConfig and a list of captures.
Shaped(doc) ==
    /\ doc.t = "obj"
    /\ Member(doc, "sessionId").t = "str"
    /\ Member(doc, "createdAt").t = "num"
    /\ Member(doc, "gameWindowConfig").t = "obj"
    /\ Member(doc, "captures").t = "arr"

\* C13: opening a replayer on a path without a manifest fails with an error
\* of kind NotFound, and on a manifest that is not JSON, or is JSON of
\* another shape, with an error of kind Corrupt.
C13_OpenErrorKinds ==
    outcome.op = "replayInit" =>
        /\ replay.doc = None =>
              outcome.result = "error" /\ outcome.error = "NotFound"
        /\ (replay.doc # None /\ ~Shaped(replay.doc[1])) =>
              outcome.result = "error" /\ outcome.error = "Corrupt"

\* replayByIndex has just been called on a replayer whose manifest has a
\* list of captures.
AskedByIndex ==
    /\ outcome.op = "replayByIndex"
    /\ replay.manifest # None
    /\ HasCaptures

\* The captures of the loaded manifest with the index asked for.
Asked ==
    LET captures == replay.manifest[1].captures
    IN  {n \in 1..Len(captures) : captures[n].index = outcome.args.index}

\* C14: replayByIndex(i) fails with an error of kind NotFound when no capture
\* of the loaded manifest has index i; when it returns, it has replayed the
\* capture with index i: the result holds that capture's snapshot and the
\* path of its frame.
C14_ByIndex ==
    AskedByIndex =>
        /\ Asked = {} => outcome.result = "error" /\ outcome.error = "NotFound"
        /\ outcome.result = "ok" =>
              LET last == replay.results[Len(replay.results)]
              IN  /\ Asked # {}
                  /\ last.arg = outcome.args.index
                  /\ Len(last.results) = 1
                  /\ \E n \in Asked :
                        LET capture == replay.manifest[1].captures[n]
                        IN  /\ last.results[1].original = capture.gameState
                            /\ last.results[1].screenshotPath =
                                   <<replay.path, capture.filename>>

\* replayAll has just returned its results.
ReplayedAll == outcome.op = "replayAll" /\ outcome.result = "ok"

\* What the last replay returned.
LastReplayed == replay.results[Len(replay.results)]

\* C15: the results of replayAll are as many as the captures of the loaded
\* manifest and in their order: result k holds the snapshot of capture k and
\* the path of its frame.
C15_AllInOrder ==
    ReplayedAll =>
        LET captures == replay.manifest[1].captures
            results == LastReplayed.results
        IN  /\ Len(results) = Len(captures)
            /\ \A k \in 1..Len(captures) :
                  /\ results[k].original = captures[k].gameState
                  /\ results[k].screenshotPath = <<replay.path, captures[k].filename>>

C15_Witness ==
    /\ ReplayedAll
    /\ Len(replay.manifest[1].captures) = 2
    /\ Len(LastReplayed.results) = 2
    /\ LastReplayed.results[1].screenshotPath # LastReplayed.results[2].screenshotPath
    /\ LastReplayed.results[1].screenshotPath = <<replay.path, PngName(1)>>

\* The last two replays were of the same capture or captures and read the
\* same frames.
ReplayedTwice ==
    /\ Len(replay.results) = 2
    /\ replay.results[1].arg = replay.results[2].arg
    /\ replay.results[1].frames = replay.results[2].frames

\* The snapshots a replay reparsed.
Reparsed(e) == [k \in 1..Len(e.results) |-> e.results[k].reparsed]

\* C11: replaying the same stored capture twice gives the same reparsed
\* snapshot, every field of it.
C11_ReplayIdempotent ==
    ReplayedTwice => Reparsed(replay.results[1]) = Reparsed(replay.results[2])

\* The text region k showed when the entry point in flight read it, trimmed.
Recognized(k) == Trim(inv.seen[k])

\* Region k was read and neither its crop nor its recognition failed.
Read(k) == Returns /\ k \in 1..Len(inv.seen) /\ k \notin inv.failed

\* The first <digits><dash><digits> of a text, written a-b, if it has one.
StagePattern(text) ==
    LET match == MatchPair(text, DashClass)
    IN  IF match = None THEN None
        ELSE Some(match[1][1] \o <<"-">> \o match[1][2])

\* C25: in both entry points the stage is the <digits>-<digits> match of the
\* trimmed text written a-b, else the trimmed text when it is not empty,
\* else absent.
C25_StageRule ==
    Read(StageIdx) =>
        Snapshot.stage =
            IF StagePattern(Recognized(StageIdx)) # None
            THEN StagePattern(Recognized(StageIdx))
            ELSE IF Recognized(StageIdx) # <<>> THEN Some(Recognized(StageIdx))
            ELSE None

\* C26: level is the first run of digits of the trimmed level text as a
\* number, absent when it has none; xp is its first a/b pair, absent when it
\* has none, whether or not there is a level; both are absent when the crop
\* or the recognition failed.
C26_LevelRule ==
    Returns =>
        IF LevelIdx \in inv.failed
        THEN Snapshot.shop.level = None /\ Snapshot.shop.xp = None
        ELSE LET text == Recognized(LevelIdx)
                 run == MatchDigits(text)
                 pair == MatchPair(text, SlashClass)
             IN  /\ Snapshot.shop.level =
                       IF run = None THEN None ELSE Some(ParseInt(run[1]))
                 /\ Snapshot.shop.xp =
                       IF pair = None THEN None
                       ELSE Some(pair[1][1] \o <<"/">> \o pair[1][2])

C26_Witness ==
    /\ Returns
    /\ inv.mode = "live"
    /\ LevelIdx \notin inv.failed
    /\ Recognized(LevelIdx) = <<"L", "7">>
    /\ Snapshot.shop.level = Some(7)
    /\ Snapshot.shop.xp = None

\* The slots of a snapshot, by region.
SlotRegions == {k \in AllRegions : IsShopIdx(k) \/ IsBenchIdx(k)}
SlotOf(gs, k) == IF IsShopIdx(k) THEN gs.shop.units[k - 3]
                 ELSE gs.bench[k - 3 - ShopSlotCount]

\* C27: a slot whose trimmed text is not empty holds a unit of that name
\* with no cost and no star level; a slot whose text is empty, or whose crop
\* or recognition failed, is absent; no unit has an empty name.
C27_SlotRule ==
    Returns =>
        \A k \in SlotRegions :
            LET slot == SlotOf(Snapshot, k)
            IN  /\ (k \in inv.failed \/ Recognized(k) = <<>>) => slot = None
                /\ (k \notin inv.failed /\ Recognized(k) # <<>>) =>
                      /\ slot # None
                      /\ slot[1].name = Recognized(k)
                      /\ slot[1].cost = None
                      /\ DOMAIN slot[1] = {"name", "cost"}
                /\ slot # None => slot[1].name # <<>>

C27_Witness ==
    /\ Returns
    /\ inv.mode = "buffer"
    /\ inv.failed = {}
    /\ inv.seen[ShopIdx(2)] = <<" ">>
    /\ Snapshot.shop.units[2] = None
    /\ Snapshot.shop.units[3] = Some([name |-> <<"U", "3">>, cost |-> None])
    /\ Snapshot.bench[2] = None

\* C23: a startSession or a recordCapture with recording disabled, and a
\* recordCapture with no session open, return at their first line: the
\* capture counter, the in-memory manifest and the files of the debug
\* directory are left as they were.
C23_NoOpFrame ==
    [][/\ (ScoutInit /\ ~dbg.enabled) => (UNCHANGED <<dbg, disk>> /\ outcome'.noop)
       /\ ((SaveCapture \/ SaveCaptureOverlap) /\ ~SessionOpen)
              => (UNCHANGED <<dbg, disk>> /\ outcome'.noop)]_vars

\* A captureAndParse has ended with recording enabled and no session open:
\* nothing was counted and nothing written.
C23_Witness ==
    /\ outcome.op = "captureAndParse"
    /\ outcome.noop
    /\ dbg.enabled
    /\ dbg.manifest = None
    /\ dbg.captureIndex = 0
    /\ disk = EmptyDisk

\* TftScout.init has returned with recording enabled, and nothing has been
\* recorded since.
SessionStarted == outcome.op = "init" /\ outcome.result = "ok" /\ dbg.enabled

\* A startSession that returns leaves an open session with an empty
\* manifest and the capture counter at zero.
StartsEmpty ==
    SessionStarted => SessionOpen /\ Captures = <<>> /\ dbg.captureIndex = 0

\* C29: a startSession with recording enabled starts a new session, with an
\* empty manifest and the capture counter at zero, and the first capture
\* recorded in the session has index 1.
C29_NewSession ==
    /\ StartsEmpty
    /\ SessionOpen /\ Captures # <<>> => Captures[1].index = 1 /\ Captures[1].filename = PngName(1)

(***************************************************************************)
(* Properties of region crops (under SpecRecorder).                        *)
(***************************************************************************)
\* A step of saveRegionCrop that writes does so with recording and region
\* crops enabled and a session open.
CropWriteGuarded ==
    (SaveRegionCrop /\ disk'.crops # disk.crops) => dbg.saveRegionCrops /\ SessionOpen

\* A step of saveCapture that records a capture gives it the index that the
\* crops written during its extraction carry.
CropsCarryIndex ==
    (SaveCapture /\ outcome'.result = "ok" /\ ~outcome'.noop)
        => \A c \in inv.crops : c.index = Captures'[Len(Captures')].index

CropsOnlyWhenEnabled == [][CropWriteGuarded]_vars

\* C30: saveRegionCrop writes only with recording and region crops enabled
\* and a session open, and every crop written while a capture was being
\* extracted carries in its name the index of that capture's record and
\* frame file.
C30_CropIndex == [][CropWriteGuarded /\ CropsCarryIndex]_vars

(***************************************************************************)
(* Properties of the scaling of regions (under SpecScale).                 *)
(***************************************************************************)
Scaled == outcome.op = "getScaledRegion"
ScaledFrom == BASE_REGIONS[outcome.args.region]
ScaledTo == outcome.args.returned

\* C24: scaled to the base size, 1024 by 768, every base region is returned
\* unchanged.
C24_BaseIdentity ==
    (Scaled /\ outcome.args.targetWidth = 1024 /\ outcome.args.targetHeight = 768)
        => ScaledTo = ScaledFrom

\* The last bench slot has been scaled to 1024 by 768.
C24_Witness ==
    /\ Scaled
    /\ outcome.args.targetWidth = 1024
    /\ outcome.args.targetHeight = 768
    /\ outcome.args.region = BenchIdx(BenchSlotCount)
    /\ ScaledTo = Rect(896, 545, 960, 570)

\* m is coord * target / base rounded to the nearest integer, a half
\* rounded up.
IsRounded(m, coord, target, base) ==
    /\ 2 * m * base - base <= 2 * coord * target
    /\ 2 * coord * target < 2 * m * base + base

\* coord * target / base rounded to the nearest integer.
RoundedOf(coord, target, base) ==
    CHOOSE m \in 0..(2 * target) : IsRounded(m, coord, target, base)

\* C28: each of the four coordinates of a scaled region is its base
\* coordinate times w / 1024 (or h / 768), rounded on its own; the width and
\* the height of the scaled region are the differences of the rounded
\* corners.
C28_CornerRounding ==
    Scaled =>
        LET w == outcome.args.targetWidth
            h == outcome.args.targetHeight
            x1 == RoundedOf(ScaledFrom.leftTop.x, w, 1024)
            y1 == RoundedOf(ScaledFrom.leftTop.y, h, 768)
            x2 == RoundedOf(ScaledFrom.rightBottom.x, w, 1024)
            y2 == RoundedOf(ScaledFrom.rightBottom.y, h, 768)
        IN  /\ ScaledTo.leftTop = [x |-> x1, y |-> y1]
            /\ ScaledTo.rightBottom = [x |-> x2, y |-> y2]
            /\ RegionWidth(ScaledTo) = x2 - x1
            /\ RegionHeight(ScaledTo) = y2 - y1

\* The stage region has been scaled to 1920 by 1080: its corners are rounded
\* one by one, and it is 142 wide where its base width scaled and rounded
\* would be 143.
C28_Witness ==
    /\ Scaled
    /\ outcome.args.region = StageIdx
    /\ outcome.args.targetWidth = 1920
    /\ outcome.args.targetHeight = 1080
    /\ ScaledTo = Rect(889, 7, 1031, 35)
    /\ RegionWidth(ScaledTo) = 142
    /\ Round(RegionWidth(ScaledFrom) * 1920, BASE_WIDTH) = 143

(***************************************************************************)
(* Properties of the HotkeyManager (under SpecHotkey).                     *)
(***************************************************************************)
\* A part of a descriptor that names a modifier, in any case.
IsModifierName(part) ==
    toLowerCase(part) \in {<<"c", "t", "r", "l">>, <<"c", "o", "n", "t", "r", "o", "l">>, <<"a", "l", "t">>, <<"s", "h", "i", "f", "t">>}

\* The descriptor has a non-modifier key: a part that is neither empty nor
\* the name of a modifier.
HasKey(accelerator) ==
    LET parts == Split(accelerator, "+")
    IN  \E i \in 1..Len(parts) : parts[i] # <<>> /\ ~IsModifierName(parts[i])

\* A register of the descriptor a behaves as its validity demands.
RegisterValid(a) ==
    (outcome'.op = "register" /\ outcome'.args.accelerator = a /\ CallRegister)
        => IF HasKey(a)
           THEN /\ outcome'.args.returned
                /\ \E i \in 1..Len(hotkeys'.hotkeyMap) : hotkeys'.hotkeyMap[i].accelerator = a
           ELSE /\ ~outcome'.args.returned
                /\ hotkeys' = hotkeys

\* register is as C21 states for every descriptor that does not end a key
\* with an empty part.
RegisterValidButTrailing ==
    [][\A a \in Accelerators \ {<<"F", "3", "+">>} : RegisterValid(a)]_vars

\* C21: register returns false, registers no callback and leaves the
\* registered set as it was when the descriptor has no non-modifier key (only
\* modifier names and empty parts), and returns true in every other case.
C21_RegisterValidity == [][\A a \in Accelerators : RegisterValid(a)]_vars

\* Two descriptors that differ only in the case of their letters.
SameButCase(a, b) ==
    /\ Len(a) = Len(b)
    /\ \A i \in 1..Len(a) :
           MapChar(a[i], UpperChars, LowerChars) = MapChar(b[i], UpperChars, LowerChars)

\* The pairs of descriptors of the runs that differ only in case, and each
\* descriptor with one.
CasePairs == {p \in Accelerators \X Accelerators : p[1] # p[2] /\ SameButCase(p[1], p[2])}
Respelled == {p[1] : p \in CasePairs}

\* What parseAccelerator makes of each descriptor of the runs.
ParsedAs == [a \in Accelerators |-> parseAccelerator(a)]

\* The descriptor would fire on the key, with the modifiers as they stand.
WouldFire(accelerator, keyCode) ==
    matchHotkey(hotkeys.modifierState, keyCode, ParsedAs[accelerator])

Registered == {hotkeys.hotkeyMap[i].accelerator : i \in 1..Len(hotkeys.hotkeyMap)}

\* C22: descriptors are read without regard to case: two descriptors that
\* differ only in case fire on the same keys under the same modifiers, and a
\* key-down fires a registered descriptor exactly when its other spelling
\* would fire.
C22_CaseInsensitive ==
    /\ \A p \in CasePairs, keyCode \in Keys :
           WouldFire(p[1], keyCode) = WouldFire(p[2], keyCode)
    /\ (outcome.op = "keydown" /\ hotkeys.hooked /\ outcome.args.keyCode \notin ModifierKeys)
           => /\ \A p \in CasePairs :
                     (p[1] \in Registered /\ WouldFire(p[2], outcome.args.keyCode))
                         => outcome.args.called # <<>>
              /\ \A p \in CasePairs :
                     (\E i \in 1..Len(outcome.args.called) : outcome.args.called[i] = p[1])
                         => WouldFire(p[2], outcome.args.keyCode)

\* "ctrl+f3" is registered, and F3 going down with Ctrl held has called its
\* callback.
C22_Witness ==
    /\ outcome.op = "keydown"
    /\ outcome.args.keyCode = "F3"
    /\ hotkeys.modifierState.ctrl
    /\ outcome.args.called = <<<<"c", "t", "r", "l", "+", "f", "3">>>>

(***************************************************************************)
(* Properties of a failed open of the replayer (under Spec).               *)
(***************************************************************************)
\* C36: a replayer whose init raised an error holds no manifest: getManifest
\* returns null, and replayAll and replayByIndex fail with the error
\* "ReplayManager not initialized".
C36_FailedOpenUninitialized ==
    replay.initThrew =>
        /\ replay.manifest = None
        /\ outcome.op \in {"replayAll", "replayByIndex"} =>
               /\ outcome.result = "error"
               /\ outcome.message = "ReplayManager not initialized"

\* The opens that fail before a manifest is parsed leave the replayer
\* uninitialized.
FailedBeforeParse ==
    (replay.initThrew /\ (replay.doc = None \/ replay.doc[1].t = "bad")) =>
        /\ replay.manifest = None
        /\ outcome.op \in {"replayAll", "replayByIndex"} =>
               outcome.message = "ReplayManager not initialized"

(***************************************************************************)
(* Properties of overlapping invocations in the recorder (under Spec).     *)
(***************************************************************************)
\* The saveCapture of invocation i takes an index and a file name no capture
\* of the manifest has, and what it persists under that index, the frame,
\* the snapshot file and the record, is the frame and the snapshot of i.
RecordsAs(i) ==
    LET n == dbg'.captureIndex
        dir == dbg.sessionDir[1]
    IN  /\ n = dbg.captureIndex + 1
        /\ \A m \in 1..Len(Captures) :
               Captures[m].index # n /\ Captures[m].filename # PngName(n)
        /\ outcome'.result = "ok" =>
               /\ Captures' = Append(Captures,
                                     [index |-> n, filename |-> PngName(n),
                                      capturedAt |-> i.p.gs.timestamp,
                                      gameState |-> i.p.gs])
               /\ disk'.png[<<dir, PngName(n)>>] = i.shot
               /\ disk'.json[<<dir, JsonName(n)>>] = StringifyGameState(i.p.gs)

\* C32: every invocation that reaches saveCapture, overlapping another or
\* not, gets an index and a file name of its own, and the frame and the
\* snapshot persisted under that index are those of that invocation.
C32_OwnIndex ==
    [][/\ (inv.pc = "parsed" /\ inv'.pc = "idle" /\ ~outcome'.noop /\ SaveCapture)
              => RecordsAs(inv)
       /\ (overlap.pc = "parsed" /\ overlap'.pc = "idle" /\ ~outcome'.noop
              /\ SaveCaptureOverlap)
              => RecordsAs(overlap)]_vars

\* Two invocations overlapped and both have been recorded, the one that
\* started later first: indices 1 and 2, files capture-001.png and
\* capture-002.png.
C32_Witness ==
    /\ SessionOpen
    /\ Len(Captures) = 2
    /\ Captures[1].index = 1
    /\ Captures[2].index = 2
    /\ Captures[1].capturedAt > Captures[2].capturedAt
    /\ Has(disk.png, <<SessionDir, PngName(1)>>)
    /\ Has(disk.png, <<SessionDir, PngName(2)>>)
    /\ disk.json[<<SessionDir, JsonName(1)>>] = StringifyGameState(Captures[1].gameState)
    /\ disk.json[<<SessionDir, JsonName(2)>>] = StringifyGameState(Captures[2].gameState)

\* C33: in the manifest of the open session capturedAt does not decrease
\* with the capture index.
C33_CapturedAtOrder ==
    SessionOpen =>
        \A m, n \in 1..Len(Captures) :
            Captures[m].index < Captures[n].index
                => Captures[m].capturedAt <= Captures[n].capturedAt
\* The origin the configuration asks for: the position it gives; when it
\* gives none, the position of the window detected; and when none is
\* detected, the centre of the display for a window of the configured size.
ConfiguredOrigin == scout.config.gameWindow.x # None /\ scout.config.gameWindow.y # None
ExpectedOrigin ==
    LET g == scout.config.gameWindow
    IN  IF ConfiguredOrigin THEN [x |-> g.x[1], y |-> g.y[1]]
        ELSE IF scout.config.autoDetectWindow /\ window # NoWindow
             THEN [x |-> window.x, y |-> window.y]
             ELSE [x |-> (Display.width - g.width) \div 2,
                   y |-> (Display.height - g.height) \div 2]

\* C31: init leaves as capture origin the configured origin when one is
\* configured, else the position of the detected window, else the centered
\* position on the display.
C31_OriginByPrecedence ==
    [][(outcome'.op = "init" /\ ScoutInit) => origin' = Some(ExpectedOrigin)]_vars

\* The origin is defined once init has run, is the configured one when the
\* window is not to be detected, and the first init of a TftScout given no
\* origin takes the detected position or else the centered one.
OriginDefined == outcome.op = "init" => origin # None
ConfiguredKeptWithoutDetection ==
    [][(outcome'.op = "init" /\ ScoutInit /\ ConfiguredOrigin
            /\ ~scout.config.autoDetectWindow)
        => origin' = Some(ExpectedOrigin)]_vars
FirstInitUnconfigured ==
    [][(outcome'.op = "init" /\ ScoutInit /\ ~ConfiguredOrigin /\ origin = None)
        => origin' = Some(ExpectedOrigin)]_vars
ConfiguredOverridden ==
    /\ ConfiguredOrigin
    /\ outcome.op = "init"
    /\ window # NoWindow
    /\ origin = Some([x |-> window.x, y |-> window.y])
    /\ origin # Some(ExpectedOrigin)

\* The entries of the hotkeyMap that the key-down of keyCode matches, and the
\* number of times a callback is among those called.
Matching(keyCode) ==
    {i \in 1..Len(hotkeys.hotkeyMap) :
        /\ keyCode \notin ModifierKeys
        /\ matchHotkey(hotkeys.modifierState, keyCode, hotkeys.hotkeyMap[i].parsed)}
TimesCalled(called, callback) == Len(SelectSeq(called, LAMBDA c : c = callback))

\* C34: whatever start, stop, register and unregister calls came before, a
\* key-down received while the hook is running calls the callback of every
\* registered combination it matches exactly once.
C34_FiresExactlyOnce ==
    [][(outcome'.op = "keydown" /\ hotkeys.hooked /\ KeyDown) =>
        \A i \in Matching(outcome'.args.keyCode) :
            TimesCalled(outcome'.args.called, hotkeys.hotkeyMap[i].callback) = 1]_vars

\* A key-down received while the hook is running calls the callback of the
\* first entry it matches at least once, and exactly once when start has put
\* its handlers on the hook only once; no callback is called that is not
\* that of a matching entry, and none when the hook is not running.
FiresFirstMatch ==
    [][(outcome'.op = "keydown" /\ hotkeys.hooked /\ KeyDown) =>
        LET hits == Matching(outcome'.args.keyCode)
            called == outcome'.args.called
        IN  /\ hits # {} =>
                LET first == CHOOSE i \in hits : \A j \in hits : i <= j
                IN  /\ TimesCalled(called, hotkeys.hotkeyMap[first].callback) >= 1
                    /\ hotkeys.listeners = 1 =>
                           called = <<hotkeys.hotkeyMap[first].callback>>
            /\ \A n \in 1..Len(called) :
                   \E i \in hits : hotkeys.hotkeyMap[i].callback = called[n]]_vars
SilentWhenStopped ==
    [][(outcome'.op = "keydown" /\ ~hotkeys.hooked /\ KeyDown) =>
        outcome'.args.called = <<>>]_vars
CalledTwice ==
    /\ outcome.op = "keydown"
    /\ Len(outcome.args.called) = 2
    /\ outcome.args.called[1] = outcome.args.called[2]
    /\ Len(hotkeys.hotkeyMap) = 1

\* The modifiers as the keyboard has them: each held when its left or its
\* right key is down.
HeldModifiers ==
    [ctrl |-> held \cap {"Ctrl", "CtrlRight"} # {},
     alt |-> held \cap {"Alt", "AltRight"} # {},
     shift |-> held \cap {"Shift", "ShiftRight"} # {}]

\* The entries whose callback the last key-down called.
Fired ==
    {i \in 1..Len(hotkeys.hotkeyMap) :
        \E n \in 1..Len(outcome.args.called) :
            outcome.args.called[n] = hotkeys.hotkeyMap[i].callback}

\* C35: after any key-downs and key-ups the modifier state tracked is that of
\* the keyboard, each flag true exactly when the left or the right key of the
\* modifier is down, and a key-down fires a combination only with exactly
\* its modifiers held.
C35_ModifiersAgree ==
    /\ hotkeys.modifierState = HeldModifiers
    /\ outcome.op = "keydown" =>
           \A i \in Fired :
               LET parsed == hotkeys.hotkeyMap[i].parsed
               IN  [ctrl |-> parsed.ctrl, alt |-> parsed.alt, shift |-> parsed.shift]
                       = HeldModifiers

\* With the hook running from before the first key event, a flag is only
\* true with a key of the modifier down, and a combination only fires with
\* the modifiers it names down.
FlagOnlyWhenHeld ==
    /\ hotkeys.modifierState.ctrl => HeldModifiers.ctrl
    /\ hotkeys.modifierState.alt => HeldModifiers.alt
    /\ hotkeys.modifierState.shift => HeldModifiers.shift
    /\ outcome.op = "keydown" =>
           \A i \in Fired :
               LET parsed == hotkeys.hotkeyMap[i].parsed
               IN  /\ parsed.ctrl => HeldModifiers.ctrl
                   /\ parsed.alt => HeldModifiers.alt
                   /\ parsed.shift => HeldModifiers.shift
OneOfTwoReleased ==
    /\ outcome.op = "keyup"
    /\ outcome.args.keyCode = "Ctrl"
    /\ "CtrlRight" \in held
    /\ ~hotkeys.modifierState.ctrl
FiredUnmodifiedWithCtrlDown ==
    /\ outcome.op = "keydown"
    /\ outcome.args.keyCode = "F3"
    /\ "CtrlRight" \in held
    /\ outcome.args.called = <<<<"F", "3">>>>
====
